---- MODULE Spec2Model ----
(***************************************************************************)
(* A model of rustclr: the image validator (clr/file.rs), the assembly     *)
(* store served to the CLR (clr/hosting.rs), and the hosting session        *)
(* (clr/mod.rs, clr/runtime.rs, com/assembly.rs, variant.rs).               *)
(*                                                                         *)
(* The specifications share the variables:                                 *)
(*   SpecValidate    validate_file applied to bounded PE headers           *)
(*   SpecBridge      threads calling set_current_assembly,                 *)
(*                   clear_current_assembly, ProvideAssembly, ProvideModule*)
(*   SpecBridgeFair  the store with one session thread, fairly scheduled   *)
(*   Spec            one RustClr session: new, builder calls, run, drop    *)
(*   SpecPatch       patch_exit on a resolved address (clr/runtime.rs)     *)
(*   SpecReflect     the lookups of _Type (com/itype.rs)                   *)
(*   SpecLocate      threads calling CLRCreateInstance (com/mod.rs)        *)
(*   SpecHandles     the COM references a session obtains and releases     *)
(*   SpecMarshal     the SAFEARRAY builders of variant.rs                  *)
(*   SpecPwsh        threads calling PowerShell::new and drop (pwsh.rs)    *)
(* In Spec the store is written by prepare()'s set_current_assembly; the   *)
(* runtime's ProvideAssembly calls are interleaved in SpecBridge.          *)
(***************************************************************************)
EXTENDS Integers, Sequences, FiniteSets, TLC

VARIABLES
    \* ---- validate_file (clr/file.rs) ----
    vf_buffer,      \* the buffer handed to validate_file (its PE header fields)
    vf_result,      \* "none" before the call, then the Result it returned
    \* ---- the assembly store (clr/hosting.rs) ----
    CURRENT_ASSEMBLY,   \* Option<AssemblyData>: the staged buffer and identity
    current_owner,      \* the thread holding the CURRENT_ASSEMBLY mutex, or None
    PENDING_STREAMS,    \* Vec<StreamPtr>: the streams the host holds a reference to
    pending_owner,      \* the thread holding the PENDING_STREAMS mutex, or None
    STREAM_COUNT,       \* AtomicU32: streams created so far
    streams,            \* the IStream objects created: their bytes and reference counts
    th,                 \* per thread: the call it is in, its arguments and results
    \* ---- the hosting session (clr/mod.rs, clr/runtime.rs) ----
    source,             \* the image RustClr::new is given, and the builder's choices
    clr,                \* the RustClr value: its fields and those of its runtime
    s_pc,               \* where the session thread is
    s_result,           \* what the last new() / run() returned
    locals,             \* run()'s locals: the marshalled arguments, the captured output
    rt,                 \* the CLR in this process: started, host control, loaded domains
    calls,              \* the foreign calls the current run() has made, in order
    unload_log,         \* every UnloadDomain call: the domain, whether it was loaded
    invoked,            \* every Invoke_3 on an entry point: the method, the parameters
    runs,               \* run() calls so far
    \* ---- patch_exit (clr/runtime.rs) ----
    pe_input,           \* the address of Environment.Exit and the memory before the call
    mem_protect,        \* the protection of every page
    mem_bytes,          \* the byte at every address
    pe_pc,              \* where patch_exit is
    pe_locals,          \* ptr, addr_exit, size, old
    pe_result,          \* None, then the Result patch_exit returned
    protect_calls,      \* the NtProtectVirtualMemory calls made, with their arguments
    \* ---- the reflection layer (com/itype.rs) ----
    rf_op,              \* the lookup called on a _Type and what the foreign calls answer
    rf_result,          \* None, then the Result the lookup returned
    \* ---- CLRCreateInstance (com/mod.rs) ----
    CLR_CREATE_INSTANCE,    \* spin::Once<Option<fn>>: its status and value
    loc_th,                 \* each caller's position in CLRCreateInstance and its result
    loc_calls,              \* calls of CLRCreateInstance started
    loc_loads,              \* calls of LoadLibraryA made
    meta_hosts,             \* ICLRMetaHost objects the runtime has handed out
    \* ---- the COM references of a session (clr/runtime.rs, clr/mod.rs) ----
    hd_phase,       \* "created", "running", "returned", "dropped"
    hd_pc,          \* the statement of prepare()/run() reached (0 outside run())
    hd_acq,         \* per kind of handle: references obtained from the runtime
    hd_rel,         \* per kind of handle: Release() calls made
    hd_locals,      \* per kind: references held by wrappers in local variables
    hd_fields,      \* the kinds held in self.runtime (app_domain, cor_runtime_host)
    hd_runs,        \* calls of run() made
    \* ---- the marshaling functions (variant.rs) ----
    ms_input,       \* the function called, its arguments, what the OLE calls answer
    ms_result,      \* None, then what it returned and the allocations it made
    \* ---- the shared PowerShell environment (pwsh.rs) ----
    COMPILED_ENV,   \* Mutex<Option<CompiledEnv>>: None, or the environment built
    env_owner,      \* the thread holding the COMPILED_ENV mutex, or None
    ps_th,          \* each thread's position in PowerShell::new / drop and its result
    ps_log,         \* what each PowerShell::new did with the slot, in lock order
    ps_news         \* calls of PowerShell::new started

vf_vars == <<vf_buffer, vf_result>>
store_vars == <<CURRENT_ASSEMBLY, current_owner, PENDING_STREAMS, pending_owner,
                STREAM_COUNT, streams>>
bridge_vars == <<store_vars, th>>
session_vars == <<source, clr, s_pc, s_result, locals, rt, calls, unload_log, invoked, runs>>
patch_vars == <<pe_input, mem_protect, mem_bytes, pe_pc, pe_locals, pe_result, protect_calls>>
reflect_vars == <<rf_op, rf_result>>
locate_vars == <<CLR_CREATE_INSTANCE, loc_th, loc_calls, loc_loads, meta_hosts>>
handle_vars == <<hd_phase, hd_pc, hd_acq, hd_rel, hd_locals, hd_fields, hd_runs>>
marshal_vars == <<ms_input, ms_result>>
pwsh_vars == <<COMPILED_ENV, env_owner, ps_th, ps_log, ps_news>>
late_vars == <<locate_vars, handle_vars, marshal_vars, pwsh_vars>>
aux_vars == <<patch_vars, reflect_vars, late_vars>>
vars == <<vf_vars, bridge_vars, session_vars, aux_vars>>

\* Option<T>: None is the empty sequence, Some(x) the one-element sequence.
None == <<>>
Some(x) == <<x>>
IsSome(o) == o # None
Unwrap(o) == o[1]

(***************************************************************************)
(* clr/file.rs: the image validator                                        *)
(***************************************************************************)

\* windows::Win32::System::Diagnostics::Debug constants imported by file.rs
IMAGE_FILE_EXECUTABLE_IMAGE == 2
IMAGE_FILE_DLL == 8192
IMAGE_SUBSYSTEM_NATIVE == 1
\* The DOS magic "MZ" and the NT signature "PE\0\0" PE::nt_header() looks for
IMAGE_DOS_SIGNATURE == 23117
IMAGE_NT_SIGNATURE == 17744

\* u16 bitwise AND, as `characteristics & MASK` computes it
RECURSIVE BitAnd(_, _)
BitAnd(a, b) ==
    IF a = 0 \/ b = 0 THEN 0
    ELSE (IF a % 2 = 1 /\ b % 2 = 1 THEN 1 ELSE 0) + 2 * BitAnd(a \div 2, b \div 2)

RECURSIVE SumSet(_)
SumSet(S) == IF S = {} THEN 0 ELSE LET x == CHOOSE y \in S : TRUE IN x + SumSet(S \ {x})

\* FileHeader.Characteristics bits: RELOCS_STRIPPED 0x0001, EXECUTABLE_IMAGE
\* 0x0002, LARGE_ADDRESS_AWARE 0x0020, 32BIT_MACHINE 0x0100, DLL 0x2000.
CharacteristicBits == {1, 2, 32, 256, 8192}

\* OptionalHeader.Subsystem: NATIVE 1, WINDOWS_GUI 2, WINDOWS_CUI 3.
Subsystems == {1, 2, 3}

\* The headers validate_file is applied to: a DOS magic and NT signature that are
\* right or wrong, every combination of the characteristic bits above, three
\* subsystems, and a COM descriptor directory entry whose address and size are
\* zero or not.
Headers ==
    [e_magic : {IMAGE_DOS_SIGNATURE, 0},
     Signature : {IMAGE_NT_SIGNATURE, 0},
     Characteristics : {SumSet(S) : S \in SUBSET CharacteristicBits},
     Subsystem : Subsystems,
     ComVirtualAddress : {0, 8200},
     ComSize : {0, 72}]

\* PE::parse(buffer).nt_header(): Some(header) when the DOS magic and the NT
\* signature are the expected ones, None otherwise.
nt_header(buffer) ==
    IF buffer.e_magic = IMAGE_DOS_SIGNATURE /\ buffer.Signature = IMAGE_NT_SIGNATURE
    THEN Some(buffer) ELSE None

\* is_valid_executable: the three masks are applied to FileHeader.Characteristics,
\* the third being IMAGE_SUBSYSTEM_NATIVE.0.
is_valid_executable(nt) ==
    /\ BitAnd(nt.Characteristics, IMAGE_FILE_EXECUTABLE_IMAGE) # 0
    /\ BitAnd(nt.Characteristics, IMAGE_FILE_DLL) = 0
    /\ BitAnd(nt.Characteristics, IMAGE_SUBSYSTEM_NATIVE) = 0

\* is_dotnet: the COM descriptor directory entry has an address and a size.
is_dotnet(nt) == nt.ComVirtualAddress # 0 /\ nt.ComSize # 0

validate_file(buffer) ==
    LET nt == nt_header(buffer) IN
    IF nt = None THEN "InvalidNtHeader"
    ELSE IF ~is_valid_executable(Unwrap(nt)) THEN "InvalidExecutable"
    ELSE IF ~is_dotnet(Unwrap(nt)) THEN "NotDotNet"
    ELSE "Ok"

(***************************************************************************)
(* clr/hosting.rs: the assembly store the CLR calls back                   *)
(***************************************************************************)

\* The threads that call into the store: host threads stage and clear the
\* assembly, threads the runtime owns request it.
HostThreads == {"h1", "h2"}
RuntimeThreads == {"r1", "r2"}
Threads == HostThreads \cup RuntimeThreads

\* At most MaxStreams streams are created in a run of the model.
MaxStreams == 2

\* HRESULTs: Ok(()) is S_OK; HRESULT(0x80070002u32 as i32) is the not-found status.
S_OK == 0
E_FILENOTFOUND == -2147024894
\* The assembly id and the context ProvideAssembly reports.
ASSEMBLY_ID == 800
ASSEMBLY_CONTEXT == 0

Identities == {"IdA", "IdB"}
\* Image buffers of different lengths (they start with 'M', 'Z').
Buffers == {<<77>>, <<77, 90>>}

\* buffer.to_vec(), identity.to_string(): owned copies of the arguments.
to_vec(buffer) == [i \in 1..Len(buffer) |-> buffer[i]]
AssemblyData(buffer, identity) == [buffer |-> to_vec(buffer), identity |-> identity]

\* `data.buffer.len() as u32`: the cast keeps every length below 2^32, which
\* includes every length drawn here.
AsU32(n) == n

SHCreateMemStream_Short(pInit, cbInit) ==
    [data |-> SubSeq(pInit, 1, cbInit - 1), refs |-> 1]

\* SHCreateMemStream(pInit, cbInit): a new stream holding a copy of the first
\* cbInit bytes, with one reference (the caller's).
SHCreateMemStream(pInit, cbInit) == [data |-> SubSeq(pInit, 1, cbInit), refs |-> 1]

IdentityMatches_Any(data, identity) == TRUE

\* `data.identity == identity` on the staged data
IdentityMatches(data, identity) == data.identity = identity

\* The out-parameters of a ProvideAssembly call, as the caller passed them.
Unwritten == [assemblyid |-> None, context |-> None, stream |-> None]

IdleThread ==
    [pc |-> "idle", buffer |-> <<>>, identity |-> "", seen |-> None,
     stream |-> 0, ret |-> None, out |-> Unwritten]

BridgeIdle ==
    /\ CURRENT_ASSEMBLY = None
    /\ current_owner = None
    /\ PENDING_STREAMS = <<>>
    /\ pending_owner = None
    /\ STREAM_COUNT = 0
    /\ streams = <<>>
    /\ th = [t \in Threads |-> IdleThread]

\* Calls of ProvideAssembly that may still create a stream.
CreatingCalls == {t \in Threads : th[t].pc \in {"pa_lock", "pa_check"}}

\* ---- set_current_assembly(buffer, identity) ----
\* `let mut guard = CURRENT_ASSEMBLY.lock();`
SetCurrentAssembly_Lock(t, buffer, identity) ==
    /\ th[t].pc = "idle"
    /\ current_owner = None
    /\ current_owner' = Some(t)
    /\ th' = [th EXCEPT ![t] = [IdleThread EXCEPT !.pc = "sc_write",
                                 !.buffer = buffer, !.identity = identity]]
    /\ UNCHANGED <<CURRENT_ASSEMBLY, PENDING_STREAMS, pending_owner, STREAM_COUNT, streams>>

\* `*guard = Some(AssemblyData {..});` and the guard dropped at the end of the function
SetCurrentAssembly_Write(t) ==
    /\ th[t].pc = "sc_write"
    /\ CURRENT_ASSEMBLY' = Some(AssemblyData(th[t].buffer, th[t].identity))
    /\ current_owner' = None
    /\ th' = [th EXCEPT ![t] = IdleThread]
    /\ UNCHANGED <<PENDING_STREAMS, pending_owner, STREAM_COUNT, streams>>

\* ---- clear_current_assembly() ----
\* `let mut guard = CURRENT_ASSEMBLY.lock();`
ClearCurrentAssembly_Lock(t) ==
    /\ th[t].pc = "idle"
    /\ current_owner = None
    /\ current_owner' = Some(t)
    /\ th' = [th EXCEPT ![t] = [IdleThread EXCEPT !.pc = "cc_clear"]]
    /\ UNCHANGED <<CURRENT_ASSEMBLY, PENDING_STREAMS, pending_owner, STREAM_COUNT, streams>>

ClearCurrentAssembly_Clear_KeepGuard(t) ==
    /\ th[t].pc = "cc_clear"
    /\ CURRENT_ASSEMBLY' = None
    /\ th' = [th EXCEPT ![t].pc = "cc_pending"]
    /\ UNCHANGED <<current_owner, PENDING_STREAMS, pending_owner, STREAM_COUNT, streams>>

\* `*guard = None; drop(guard);`
ClearCurrentAssembly_Clear(t) ==
    /\ th[t].pc = "cc_clear"
    /\ CURRENT_ASSEMBLY' = None
    /\ current_owner' = None
    /\ th' = [th EXCEPT ![t].pc = "cc_pending"]
    /\ UNCHANGED <<PENDING_STREAMS, pending_owner, STREAM_COUNT, streams>>

\* `let mut streams = PENDING_STREAMS.lock();`
ClearCurrentAssembly_PendingLock(t) ==
    /\ th[t].pc = "cc_pending"
    /\ pending_owner = None
    /\ pending_owner' = Some(t)
    /\ th' = [th EXCEPT ![t].pc = "cc_drain"]
    /\ UNCHANGED <<CURRENT_ASSEMBLY, current_owner, PENDING_STREAMS, STREAM_COUNT, streams>>

Occurrences_None(list, s) == 0

\* How many entries of the list point at stream s.
Occurrences(list, s) == Cardinality({i \in 1..Len(list) : list[i] = s})

\* `for StreamPtr(p) in streams.drain(..)`: Release() on every entry; the list is
\* left empty and the guard dropped at the end of the function.
ClearCurrentAssembly_Drain(t) ==
    /\ th[t].pc = "cc_drain"
    /\ streams' = [s \in 1..Len(streams) |->
                      [streams[s] EXCEPT !.refs = @ - Occurrences(PENDING_STREAMS, s)]]
    /\ PENDING_STREAMS' = <<>>
    /\ pending_owner' = None
    /\ th' = [th EXCEPT ![t] = IdleThread]
    /\ UNCHANGED <<CURRENT_ASSEMBLY, current_owner, STREAM_COUNT>>

\* ---- RustClrStore::ProvideAssembly(pbindinfo, passemblyid, pcontext, ppstm, _) ----
\* `let identity = (*pbindinfo).lpPostPolicyIdentity.to_string()?;` the runtime
\* passes a well-formed identity string, of which this is an owned copy.
ProvideAssembly_Call(t, identity) ==
    /\ th[t].pc = "idle"
    /\ STREAM_COUNT + Cardinality(CreatingCalls) < MaxStreams
    /\ th' = [th EXCEPT ![t] = [IdleThread EXCEPT !.pc = "pa_lock", !.identity = identity]]
    /\ UNCHANGED store_vars

\* `let guard = CURRENT_ASSEMBLY.lock();`
ProvideAssembly_Lock(t) ==
    /\ th[t].pc = "pa_lock"
    /\ current_owner = None
    /\ current_owner' = Some(t)
    /\ th' = [th EXCEPT ![t].pc = "pa_check"]
    /\ UNCHANGED <<CURRENT_ASSEMBLY, PENDING_STREAMS, pending_owner, STREAM_COUNT, streams>>

NotFoundOut_Id == [assemblyid |-> Some(ASSEMBLY_ID), context |-> None, stream |-> None]

\* The out-parameters on the not-found path: `drop(guard); Err(..)` writes none.
NotFoundOut == Unwritten

\* Whether the request is served from the slot as read under the lock.
Served(slot, identity) == IsSome(slot) /\ IdentityMatches(Unwrap(slot), identity)

\* `if let Some(data) = guard.as_ref() { if data.identity == identity {` create the
\* stream and count it `} }`, else `drop(guard)` and return the not-found error.
ProvideAssembly_Check(t) ==
    /\ th[t].pc = "pa_check"
    /\ IF Served(CURRENT_ASSEMBLY, th[t].identity)
       THEN LET data == Unwrap(CURRENT_ASSEMBLY) IN
            /\ streams' = Append(streams,
                                 SHCreateMemStream(data.buffer, AsU32(Len(data.buffer))))
            /\ STREAM_COUNT' = STREAM_COUNT + 1
            /\ th' = [th EXCEPT ![t].pc = "pa_push", ![t].seen = CURRENT_ASSEMBLY,
                                ![t].stream = Len(streams) + 1]
            /\ UNCHANGED current_owner
       ELSE /\ current_owner' = None
            /\ th' = [th EXCEPT ![t].pc = "pa_done", ![t].seen = CURRENT_ASSEMBLY,
                                ![t].ret = Some(E_FILENOTFOUND), ![t].out = NotFoundOut]
            /\ UNCHANGED <<streams, STREAM_COUNT>>
    /\ UNCHANGED <<CURRENT_ASSEMBLY, PENDING_STREAMS, pending_owner>>

\* `let cloned = unk.clone(); forget(unk); PENDING_STREAMS.lock().push(..)`: one
\* more reference, held by the list; the list's guard lives for the statement.
ProvideAssembly_Push(t) ==
    /\ th[t].pc = "pa_push"
    /\ pending_owner = None
    /\ streams' = [streams EXCEPT ![th[t].stream].refs = @ + 1]
    /\ PENDING_STREAMS' = Append(PENDING_STREAMS, th[t].stream)
    /\ th' = [th EXCEPT ![t].pc = "pa_ret"]
    /\ UNCHANGED <<CURRENT_ASSEMBLY, current_owner, pending_owner, STREAM_COUNT>>

\* The out-parameters a served request writes.
ServedOut(stream) ==
    [assemblyid |-> Some(ASSEMBLY_ID), context |-> Some(ASSEMBLY_CONTEXT),
     stream |-> Some(stream)]

\* `*passemblyid = 800; *pcontext = 0; *ppstmassemblyimage = stream; return Ok(())`
ProvideAssembly_Return(t) ==
    /\ th[t].pc = "pa_ret"
    /\ current_owner' = None
    /\ th' = [th EXCEPT ![t].pc = "pa_done", ![t].ret = Some(S_OK),
                        ![t].out = ServedOut(th[t].stream)]
    /\ UNCHANGED <<CURRENT_ASSEMBLY, PENDING_STREAMS, pending_owner, STREAM_COUNT, streams>>

ProvideModuleResult_Ok == S_OK

\* ---- RustClrStore::ProvideModule(_pbindinfo, _pdwmoduleid, _ppstmmoduleimage, _) ----
\* `Err(Error::new(HRESULT(0x80070002u32 as i32), "module not recognized"))`
ProvideModuleResult == E_FILENOTFOUND

\* The whole function: no argument is read, no lock taken, no out-parameter written.
ProvideModule(t) ==
    /\ th[t].pc = "idle"
    /\ th' = [th EXCEPT ![t] = [IdleThread EXCEPT !.pc = "pm_done",
                                 !.ret = Some(ProvideModuleResult)]]
    /\ UNCHANGED store_vars

\* The caller takes the result; the thread is free for its next call.
Returned(t) ==
    /\ th[t].pc \in {"pa_done", "pm_done"}
    /\ th' = [th EXCEPT ![t] = IdleThread]
    /\ UNCHANGED store_vars

\* One call of validate_file on the chosen buffer.
ValidateFile ==
    /\ vf_result = "none"
    /\ vf_result' = validate_file(vf_buffer)
    /\ UNCHANGED <<vf_buffer, bridge_vars, session_vars, aux_vars>>


(***************************************************************************)
(* com/assembly.rs, variant.rs: the entry point and its arguments          *)
(***************************************************************************)

\* Text is a sequence of characters, so that `ends_with` is computed.
T_Void == <<"V", "o", "i", "d">>
T_Main == <<"M", "a", "i", "n">>
T_Run == <<"R", "u", "n">>
T_StringArray ==
    <<"S", "y", "s", "t", "e", "m", ".", "S", "t", "r", "i", "n", "g", "[", "]">>
T_Int32 == <<"I", "n", "t", "3", "2">>

\* The entry points an image may declare: Main(), Main(System.String[]),
\* Main(Int32), Run() and XMain().
EntryPoints ==
    {[ret |-> T_Void, name |-> T_Main, params |-> <<>>],
     [ret |-> T_Void, name |-> T_Main, params |-> T_StringArray],
     [ret |-> T_Void, name |-> T_Main, params |-> T_Int32],
     [ret |-> T_Void, name |-> T_Run, params |-> <<>>],
     [ret |-> T_Void, name |-> <<"X">> \o T_Main, params |-> <<>>]}

\* _MethodInfo::ToString: the runtime's text of a method, "Void Main()".
MethodToString(m) == m.ret \o <<" ">> \o m.name \o <<"(">> \o m.params \o <<")">>

\* str::ends_with
ends_with(str, suffix) ==
    /\ Len(str) >= Len(suffix)
    /\ SubSeq(str, Len(str) - Len(suffix) + 1, Len(str)) = suffix

\* The match of _Assembly::run on the entry point's text: the arm it takes.
EntryArm(str) ==
    IF ends_with(str, T_Main \o <<"(", ")">>) THEN "no_args"
    ELSE IF ends_with(str, T_Main \o <<"(">> \o T_StringArray \o <<")">>) THEN "string_array"
    ELSE "MethodNotFound"

EntryParameters_Always(arm, args) == Some(args)

\* The `parameters` _Assembly::run hands to invoke: None for Main(), Some(args)
\* for Main(System.String[]).
EntryParameters(arm, args) == IF arm = "no_args" THEN None ELSE Some(args)

\* with_args: `args.iter().map(|&s| s.to_string()).collect()`
with_args(args) == Some([i \in 1..Len(args) |-> args[i]])

\* `self.args.clone().unwrap_or_default()`
unwrap_or_default(o) == IF IsSome(o) THEN Unwrap(o) ELSE <<>>

\* create_string_array_variant(strings): one VARIANT tagged VT_ARRAY | VT_BSTR
\* whose array holds the strings in order.
create_string_array_variant(strings) ==
    [vt |-> "VT_ARRAY|VT_BSTR", parray |-> [i \in 1..Len(strings) |-> strings[i]]]

\* create_safe_args(args): a SAFEARRAY of VT_VARIANT with args.len() elements,
\* element i a copy of args[i] (SafeArrayPutElement copies the VARIANT).
create_safe_args(args) == [i \in 1..Len(args) |-> args[i]]

(***************************************************************************)
(* clr/mod.rs, clr/runtime.rs: the session                                 *)
(***************************************************************************)

\* run() is called at most MaxRuns times on a session.
MaxRuns == 2
\* unload_domain is called outside run() at most MaxUnloadCalls times.
MaxUnloadCalls == 1

\* A console executable with a COM descriptor (Characteristics 0x0102) and a
\* library (0x2102).
ExeHeader ==
    [e_magic |-> IMAGE_DOS_SIGNATURE, Signature |-> IMAGE_NT_SIGNATURE,
     Characteristics |-> 258, Subsystem |-> 3, ComVirtualAddress |-> 8200, ComSize |-> 72]
DllHeader == [ExeHeader EXCEPT !.Characteristics = 8450]

\* The images a session is created from: their header, bytes and entry point.
Images ==
    {[hdr |-> ExeHeader, bytes |-> <<77, 90>>, entry |-> e] : e \in EntryPoints}
    \cup {[hdr |-> DllHeader, bytes |-> <<77, 90>>,
           entry |-> [ret |-> T_Void, name |-> T_Main, params |-> <<>>]]}

\* Argument lists given to with_args; None when with_args is not called.
ArgLists == {<<"a", "b">>}
\* RuntimeVersion given to with_runtime_version; None when it is not called.
RuntimeVersions == {"UNKNOWN"}

\* What RustClr::new and the builder calls that follow it are given.
Sources ==
    [image : Images,
     redirect_output : BOOLEAN,
     patch_exit : BOOLEAN,
     args : {None} \cup {Some(a) : a \in ArgLists},
     runtime_version : {None} \cup {Some(v) : v \in RuntimeVersions}]

\* ICLRAssemblyIdentityManager::get_identity_stream: the identity the runtime
\* computes for the image in the stream.
get_identity_stream(bytes) == "IdA"

\* Result<T>
Err(kind, at) == [ok |-> FALSE, val |-> kind, at |-> at]
Ok(v) == [ok |-> TRUE, val |-> v, at |-> ""]

NoLocals ==
    [string_array |-> None, args |-> None, redirected |-> FALSE, writer |-> None,
     output |-> ""]
NoClr ==
    [buffer |-> None, redirect_output |-> FALSE, patch_exit |-> FALSE, args |-> None,
     runtime_version |-> None, identity_assembly |-> "", app_domain |-> None,
     cor_runtime_host |-> None]

SessionIdle ==
    /\ clr = NoClr
    /\ s_pc = "new"
    /\ s_result = None
    /\ locals = NoLocals
    /\ rt = [started |-> FALSE, host_control |-> FALSE, domains |-> {}, created |-> 0]
    /\ calls = <<>>
    /\ unload_log = <<>>
    /\ invoked = <<>>
    /\ runs = 0

\* A step of the session leaves the validator's and the store's state alone.
OnlySession == UNCHANGED <<vf_vars, bridge_vars, aux_vars>>

\* RustClr::new(source) and the builder calls that follow it.
New ==
    /\ s_pc = "new"
    /\ LET v == validate_file(source.image.hdr) IN
       IF v = "Ok"
       THEN /\ clr' = [NoClr EXCEPT !.buffer = Some(source.image),
                                    !.redirect_output = source.redirect_output,
                                    !.patch_exit = source.patch_exit,
                                    !.args = IF IsSome(source.args)
                                             THEN with_args(Unwrap(source.args)) ELSE None,
                                    !.runtime_version = source.runtime_version]
            /\ s_pc' = "created"
            /\ UNCHANGED s_result
       ELSE /\ s_pc' = "rejected"
            /\ s_result' = Some(Err(v, "new"))
            /\ UNCHANGED clr
    /\ UNCHANGED <<source, locals, rt, calls, unload_log, invoked, runs>>
    /\ OnlySession

\* run() is entered: `self.runtime.prepare()?` begins. Its result is not known
\* until it returns.
Run ==
    /\ s_pc \in {"created", "returned"}
    /\ runs < MaxRuns
    /\ runs' = runs + 1
    /\ s_pc' = "create_meta_host"
    /\ calls' = <<>>
    /\ s_result' = None
    /\ UNCHANGED <<source, clr, locals, rt, unload_log, invoked>>
    /\ OnlySession

\* `return Err(..)` / `?`: run() returns; its locals are dropped.
Return(res) ==
    /\ s_pc' = "returned"
    /\ s_result' = Some(res)
    /\ locals' = NoLocals

\* One fallible step of run(): the foreign call `name` made at `at`; when it
\* succeeds run() goes on to `next` with `newlocals`, when it fails run()
\* returns Err(kind).
Step(at, name, ok, next, newlocals, kind) ==
    /\ s_pc = at
    /\ calls' = Append(calls, name)
    /\ IF ok
       THEN /\ s_pc' = next
            /\ locals' = newlocals
            /\ UNCHANGED s_result
       ELSE Return(Err(kind, at))

\* A step that makes no foreign call.
Skip(at, next, newlocals) ==
    /\ s_pc = at
    /\ s_pc' = next
    /\ locals' = newlocals
    /\ UNCHANGED <<calls, s_result>>

\* What a step leaves alone besides the session's position, locals and result.
Frame == UNCHANGED <<source, clr, rt, unload_log, invoked, runs>> /\ OnlySession

\* ---- RustClrRuntime::prepare ----
\* `let meta_host = self.create_meta_host()?;`
CreateMetaHost ==
    /\ \E ok \in BOOLEAN :
           Step("create_meta_host", "CLRCreateInstance", ok, "get_runtime_info", locals,
                "MetaHostCreationError")
    /\ Frame

\* RuntimeVersion::to_vec: the version string of a tag.
RuntimeVersion_to_vec(tag) ==
    CASE tag = "V2" -> "v2.0.50727"
      [] tag = "V3" -> "v3.0"
      [] tag = "V4" -> "v4.0.30319"
      [] tag = "UNKNOWN" -> "UNKNOWN"

\* The version strings ICLRMetaHost::GetRuntime can know a runtime for.
RuntimeStrings == {"v2.0.50727", "v4.0.30319"}

IsSupportedVersion_Any(v) == TRUE

\* The version string the meta host is asked for
\* (`self.runtime_version.unwrap_or(RuntimeVersion::V4).to_vec()`), and whether
\* it knows it at all.
VersionString(v) == RuntimeVersion_to_vec(IF IsSome(v) THEN Unwrap(v) ELSE "V4")
IsSupportedVersion(v) == VersionString(v) \in RuntimeStrings

\* `let runtime_info = self.get_runtime_info(&meta_host)?;` GetRuntime fails for a
\* version string no runtime has, and may fail for one that is not installed.
GetRuntimeInfo ==
    /\ \E ok \in {b \in BOOLEAN : b => IsSupportedVersion(clr.runtime_version)} :
           Step("get_runtime_info", "GetRuntime", ok, "get_proc_address", locals,
                "RuntimeInfoError")
    /\ Frame

\* `let addr = runtime_info.GetProcAddress("GetCLRIdentityManager")?;`
GetProcAddress ==
    /\ \E ok \in BOOLEAN :
           Step("get_proc_address", "GetProcAddress", ok, "identity_manager", locals,
                "ApiError")
    /\ Frame

\* `GetCLRIdentityManager(..); ICLRAssemblyIdentityManager::from_raw(ptr)?`
IdentityManager ==
    /\ \E ok \in BOOLEAN :
           Step("identity_manager", "GetCLRIdentityManager", ok, "get_identity_stream",
                locals, "CastingError")
    /\ Frame

\* `self.identity_assembly = iclr_assembly.get_identity_stream(stream, 0)?;`
GetIdentityStream ==
    /\ \E ok \in BOOLEAN :
           /\ Step("get_identity_stream", "GetBindingIdentityFromStream", ok,
                   "get_clr_runtime_host", locals, "ApiError")
           /\ clr' = IF ok
                     THEN [clr EXCEPT !.identity_assembly =
                                          get_identity_stream(Unwrap(clr.buffer).bytes)]
                     ELSE clr
    /\ UNCHANGED <<source, rt, unload_log, invoked, runs>> /\ OnlySession

\* `let iclr_runtime_host = self.get_clr_runtime_host(&runtime_info)?;`
GetClrRuntimeHost ==
    /\ \E ok \in BOOLEAN :
           Step("get_clr_runtime_host", "GetInterface(ICLRuntimeHost)", ok,
                "set_current_assembly", locals, "RuntimeHostError")
    /\ Frame

\* `set_current_assembly(self.buffer, &self.identity_assembly);` the whole call,
\* which takes the CURRENT_ASSEMBLY lock, writes the slot and releases the lock.
PrepareSetCurrentAssembly ==
    /\ Skip("set_current_assembly", "check_started", locals)
    /\ current_owner = None
    /\ CURRENT_ASSEMBLY' = Some(AssemblyData(Unwrap(clr.buffer).bytes, clr.identity_assembly))
    /\ UNCHANGED <<source, clr, rt, unload_log, invoked, runs>>
    /\ UNCHANGED <<vf_vars, aux_vars, current_owner, PENDING_STREAMS, pending_owner, STREAM_COUNT,
                   streams, th>>

\* `if runtime_info.IsLoadable().is_ok() && !runtime_info.is_started()`; is_started
\* is `IsStarted(..).is_ok() && started`. The two queries change nothing and are
\* not kept in `calls`.
CheckStarted ==
    /\ s_pc = "check_started"
    /\ \E loadable_ok \in BOOLEAN, is_started_ok \in BOOLEAN :
           LET started == is_started_ok /\ rt.started IN
           /\ s_pc' = IF loadable_ok /\ ~started THEN "set_host_control"
                      ELSE "get_icor_runtime_host"
    /\ UNCHANGED <<s_result, locals, calls>>
    /\ Frame

\* `iclr_runtime_host.SetHostControl(&host_control)?;`
SetHostControl ==
    /\ \E ok \in BOOLEAN :
           /\ Step("set_host_control", "SetHostControl", ok, "start_runtime", locals,
                   "ApiError")
           /\ rt' = IF ok THEN [rt EXCEPT !.host_control = TRUE] ELSE rt
    /\ UNCHANGED <<source, clr, unload_log, invoked, runs>> /\ OnlySession

\* `self.start_runtime(&iclr_runtime_host)?;` Start() != 0 is RuntimeStartError
StartRuntime ==
    /\ \E ok \in BOOLEAN :
           /\ Step("start_runtime", "Start", ok, "get_icor_runtime_host", locals,
                   "RuntimeStartError")
           /\ rt' = IF ok THEN [rt EXCEPT !.started = TRUE] ELSE rt
    /\ UNCHANGED <<source, clr, unload_log, invoked, runs>> /\ OnlySession

\* `let cor_runtime_host = self.get_icor_runtime_host(&runtime_info)?;`
GetICorRuntimeHost ==
    /\ \E ok \in BOOLEAN :
           Step("get_icor_runtime_host", "GetInterface(ICorRuntimeHost)", ok,
                "init_app_domain", locals, "RuntimeHostError")
    /\ Frame

\* init_app_domain: `cor_runtime_host.CreateDomain(name, null_mut())?` and
\* `self.app_domain = Some(app_domain)`. A created domain lives in a running runtime.
InitAppDomain ==
    /\ \E ok \in BOOLEAN :
           /\ Step("init_app_domain", "CreateDomain", ok, "save_runtime_host", locals,
                   "ApiError")
           /\ LET d == rt.created + 1 IN
              IF ok
              THEN /\ rt' = [rt EXCEPT !.created = d, !.domains = @ \cup {d},
                                       !.started = TRUE]
                   /\ clr' = [clr EXCEPT !.app_domain = Some(d)]
              ELSE UNCHANGED <<rt, clr>>
    /\ UNCHANGED <<source, unload_log, invoked, runs>> /\ OnlySession

\* `self.cor_runtime_host = Some(self.get_icor_runtime_host(&runtime_info)?);`
SaveRuntimeHost ==
    /\ \E ok \in BOOLEAN :
           /\ Step("save_runtime_host", "GetInterface(ICorRuntimeHost)", ok,
                   "get_app_domain", locals, "RuntimeHostError")
           /\ clr' = IF ok THEN [clr EXCEPT !.cor_runtime_host = Some("ICorRuntimeHost")]
                     ELSE clr
    /\ UNCHANGED <<source, rt, unload_log, invoked, runs>> /\ OnlySession

\* RustClrRuntime::get_app_domain: self.app_domain.clone().ok_or(NoDomainAvailable)
get_app_domain(runtime) ==
    IF IsSome(runtime.app_domain)
    THEN Ok(Unwrap(runtime.app_domain))
    ELSE Err("NoDomainAvailable", "get_app_domain")

\* ---- RustClr::run, after prepare ----
\* `let domain = self.runtime.get_app_domain()?;`
GetAppDomain ==
    /\ s_pc = "get_app_domain"
    /\ IF get_app_domain(clr).ok
       THEN s_pc' = "load_bytes" /\ UNCHANGED <<s_result, locals>>
       ELSE Return(get_app_domain(clr))
    /\ UNCHANGED calls
    /\ Frame

\* `let assembly = domain.load_bytes(self.runtime.buffer)?;`
LoadBytes ==
    /\ \E ok \in BOOLEAN :
           Step("load_bytes", "Load_3", ok, "create_string_array", locals, "ApiError")
    /\ Frame

\* `let string_array = create_string_array_variant(self.args.clone().unwrap_or_default())?;`
CreateStringArray ==
    /\ \E ok \in BOOLEAN :
           Step("create_string_array", "SafeArrayCreateVector", ok, "create_safe_args",
                [locals EXCEPT !.string_array =
                     Some(create_string_array_variant(unwrap_or_default(clr.args)))],
                "NullPointerError")
    /\ Frame

\* `let args = create_safe_args(vec![string_array])?;`
CreateSafeArgs ==
    /\ \E ok \in BOOLEAN :
           Step("create_safe_args", "SafeArrayCreateVector", ok, "get_mscorlib",
                [locals EXCEPT !.args = Some(create_safe_args(<<Unwrap(locals.string_array)>>)),
                               !.string_array = None],
                "NullPointerError")
    /\ Frame

\* `let mscorlib = domain.get_assembly("mscorlib")?;`
GetMscorlib ==
    /\ \E ok \in BOOLEAN :
           Step("get_mscorlib", "GetAssemblies", ok, "patch_exit", locals, "Msg")
    /\ Frame

PatchEnabled_Never(session) == FALSE
\* `if self.patch_exit`
PatchEnabled(session) == session.patch_exit

\* `if self.patch_exit { runtime::patch_exit(&mscorlib)?; }`
PatchExit ==
    /\ IF PatchEnabled(clr)
       THEN \E ok \in BOOLEAN : Step("patch_exit", "patch_exit", ok, "redirect", locals, "Msg")
       ELSE Skip("patch_exit", "redirect", locals)
    /\ Frame

\* `if self.redirect_output { manager.redirect()?; Some(manager) } else { None }`;
\* redirect() makes a fresh StringWriter the console's Out and Error and keeps it.
Redirect ==
    /\ IF clr.redirect_output
       THEN \E ok \in BOOLEAN :
                Step("redirect", "redirect", ok, "assembly_run",
                     [locals EXCEPT !.redirected = TRUE, !.writer = Some("")], "ApiError")
       ELSE Skip("redirect", "assembly_run", locals)
    /\ Frame

\* What the program writes to the console.
ConsoleText == "console text"

\* The redirected StringWriter after the entry point has run: it holds what the
\* program wrote; without redirection the text goes to the process's console.
Written(writer) == IF IsSome(writer) THEN Some(Unwrap(writer) \o ConsoleText) ELSE writer

\* The statement of run() that follows `assembly.run(&args)?`: the capture of
\* the output.
AfterEntryPoint_Unload == "unload_domain"
AfterEntryPoint == "capture"

\* `let _main_result = assembly.run(&args)?;` _Assembly::run: get_EntryPoint,
\* ToString, then the arm for the text: invoke(None, None), invoke(None, Some(args))
\* or Err(MethodNotFound).
AssemblyRun ==
    /\ s_pc = "assembly_run"
    /\ \E entry_ok \in BOOLEAN, text_ok \in BOOLEAN, invoke_ok \in BOOLEAN :
           LET m == Unwrap(clr.buffer).entry
               arm == EntryArm(MethodToString(m))
           IN
           IF ~entry_ok
           THEN /\ calls' = Append(calls, "get_EntryPoint")
                /\ Return(Err("ApiError", "assembly_run"))
                /\ UNCHANGED invoked
           ELSE IF ~text_ok
           THEN /\ calls' = calls \o <<"get_EntryPoint", "ToString">>
                /\ Return(Err("ApiError", "assembly_run"))
                /\ UNCHANGED invoked
           ELSE IF arm = "MethodNotFound"
           THEN /\ calls' = calls \o <<"get_EntryPoint", "ToString">>
                /\ Return(Err("MethodNotFound", "assembly_run"))
                /\ UNCHANGED invoked
           ELSE /\ calls' = calls \o <<"get_EntryPoint", "ToString", "Invoke_3">>
                /\ invoked' = Append(invoked,
                                     [method |-> m,
                                      parameters |-> EntryParameters(arm, Unwrap(locals.args))])
                /\ IF invoke_ok
                   THEN /\ s_pc' = AfterEntryPoint
                        /\ locals' = [locals EXCEPT !.writer = Written(@)]
                        /\ UNCHANGED s_result
                   ELSE Return(Err("ApiError", "assembly_run"))
    /\ UNCHANGED <<source, clr, rt, unload_log, runs>> /\ OnlySession

ClrOutput_capture_Empty(writer) == ""

\* ClrOutput::capture: StringWriter.ToString() on the kept instance, converted
\* to an owned String.
ClrOutput_capture(writer) == Unwrap(writer)

\* The statement of run() that follows the capture: the forced collection.
AfterCapture_Unload == "unload_domain"
AfterCapture == "gc_resolve"

\* `match output_manager { Some(manager) => manager.capture()?, None => String::new() }`
Capture ==
    /\ IF locals.redirected
       THEN \E ok \in BOOLEAN :
                Step("capture", "capture", ok, AfterCapture,
                     [locals EXCEPT !.output = ClrOutput_capture(locals.writer),
                                    !.writer = None], "ApiError")
       ELSE Skip("capture", AfterCapture, [locals EXCEPT !.output = ""])
    /\ Frame

\* `let gc = mscorlib.resolve_type("System.GC")?;`
GcResolve ==
    /\ \E ok \in BOOLEAN :
           Step("gc_resolve", "GetType_2(System.GC)", ok, "gc_collect_1", locals, "ApiError")
    /\ Frame

\* `gc.invoke("Collect", ..)?;`
GcCollectFirst ==
    /\ \E ok \in BOOLEAN :
           Step("gc_collect_1", "Collect", ok, "gc_wait", locals, "ApiError")
    /\ Frame

\* `gc.invoke("WaitForPendingFinalizers", ..)?;`
GcWait ==
    /\ \E ok \in BOOLEAN :
           Step("gc_wait", "WaitForPendingFinalizers", ok, "gc_collect_2", locals, "ApiError")
    /\ Frame

\* `gc.invoke("Collect", ..)?;` and the end of the block: `output` is kept, the
\* other locals are dropped.
GcCollectSecond ==
    /\ \E ok \in BOOLEAN :
           Step("gc_collect_2", "Collect", ok, "unload_domain",
                [NoLocals EXCEPT !.output = locals.output], "ApiError")
    /\ Frame

\* RustClrRuntime::unload_domain: UnloadDomain is called when both
\* cor_runtime_host and app_domain are Some; neither field is changed.
HasDomainToUnload == IsSome(clr.cor_runtime_host) /\ IsSome(clr.app_domain)

unload_domain(caller, ok) ==
    IF HasDomainToUnload
    THEN LET d == Unwrap(clr.app_domain) IN
         /\ unload_log' = Append(unload_log,
                                 [domain |-> d, loaded |-> d \in rt.domains, by |-> caller])
         /\ rt' = IF ok THEN [rt EXCEPT !.domains = @ \ {d}] ELSE rt
    ELSE ok /\ UNCHANGED <<unload_log, rt>>

\* The calls of unload_domain made outside run() that reached the runtime host.
DirectUnloads == {j \in 1..Len(unload_log) : unload_log[j].by = "caller"}

\* `self.runtime.unload_domain()?; Ok(output)`
RunUnloadDomain ==
    /\ s_pc = "unload_domain"
    /\ \E ok \in BOOLEAN :
           /\ unload_domain("run", ok)
           /\ calls' = IF HasDomainToUnload THEN Append(calls, "UnloadDomain") ELSE calls
           /\ IF ok THEN Return(Ok(locals.output))
              ELSE Return(Err("ApiError", "unload_domain"))
    /\ UNCHANGED <<source, clr, invoked, runs>> /\ OnlySession

\* unload_domain called on the runtime outside run().
DirectUnloadDomain ==
    /\ s_pc \in {"created", "returned"}
    /\ HasDomainToUnload
    /\ Cardinality(DirectUnloads) < MaxUnloadCalls
    /\ \E ok \in BOOLEAN : unload_domain("caller", ok)
    /\ UNCHANGED <<source, clr, s_pc, s_result, locals, calls, invoked, runs>>
    /\ OnlySession

\* impl Drop for RustClr: `if let Some(host) = &self.runtime.cor_runtime_host { host.Stop(); }`
Drop ==
    /\ s_pc \in {"created", "returned"}
    /\ s_pc' = "dropped"
    /\ IF IsSome(clr.cor_runtime_host)
       THEN calls' = Append(calls, "Stop") /\ rt' = [rt EXCEPT !.started = FALSE]
       ELSE UNCHANGED <<calls, rt>>
    /\ UNCHANGED <<source, clr, s_result, locals, unload_log, invoked, runs>>
    /\ OnlySession

OnlyBridge == UNCHANGED <<vf_vars, session_vars, aux_vars>>

(***************************************************************************)
(* clr/runtime.rs: patch_exit                                              *)
(***************************************************************************)

\* windows_sys PAGE_EXECUTE_READWRITE (0x40)
PAGE_EXECUTE_READWRITE == 64
\* The protections a page of code has before the call: PAGE_READONLY (0x02),
\* PAGE_EXECUTE_READ (0x20).
Protections == {2, 32}
\* `= 0xC3`
RET == 195

\* A small address space: four addresses in two pages of two bytes.
Addresses == 0..3
PageOf(a) == a \div 2
PageBase(a) == 2 * PageOf(a)
Pages == {PageOf(a) : a \in Addresses}

\* NtProtectVirtualMemory(process, &mut base, &mut size, new, &mut old): when it
\* succeeds the pages that hold base .. base+size-1 get `new`, base and size are
\* rounded to those pages and old is the first page's former protection.
RegionPages(base, size) == {PageOf(a) : a \in base..(base + size - 1)}
NtProtectVirtualMemory(protect, base, size, new) ==
    [protect |-> [pg \in Pages |-> IF pg \in RegionPages(base, size) THEN new ELSE protect[pg]],
     base |-> PageBase(base),
     size |-> 2 * Cardinality(RegionPages(base, size)),
     old |-> protect[PageOf(base)]]

RestoreProtection_Rwx(old) == PAGE_EXECUTE_READWRITE

\* The protection the second NtProtectVirtualMemory call asks for: `old`.
RestoreProtection(old) == old

PatchInputs ==
    [addr : Addresses, protect : [Pages -> Protections], bytes : [Addresses -> {72, 85}]]

NoPatchLocals == [ptr |-> 0, addr_exit |-> 0, size |-> 0, old |-> 0]

PatchIdle ==
    /\ mem_protect = pe_input.protect
    /\ mem_bytes = pe_input.bytes
    /\ pe_pc = "start"
    /\ pe_locals = NoPatchLocals
    /\ pe_result = None
    /\ protect_calls = <<>>

(***************************************************************************)
(* com/mod.rs: CLRCreateInstance and its cached function address           *)
(***************************************************************************)
LocateThreads == {"t1", "t2"}
\* CLRCreateInstance is called at most MaxLocates times.
MaxLocates == 3

\* spin::Once::new()
OnceNew == [status |-> "incomplete", value |-> None]
LocateIdleThread == [pc |-> "idle", ret |-> None]

LocateIdle ==
    /\ CLR_CREATE_INSTANCE = OnceNew
    /\ loc_th = [t \in LocateThreads |-> LocateIdleThread]
    /\ loc_calls = 0
    /\ loc_loads = 0
    /\ meta_hosts = 0

OnlyLocate ==
    UNCHANGED <<vf_vars, bridge_vars, session_vars, patch_vars, reflect_vars, handle_vars,
                marshal_vars, pwsh_vars>>

\* A thread calls CLRCreateInstance::<ICLRMetaHost>(&CLSID_CLRMETAHOST).
CLRCreateInstance_Call(t) ==
    /\ loc_th[t].pc = "idle"
    /\ loc_calls < MaxLocates
    /\ loc_calls' = loc_calls + 1
    /\ loc_th' = [loc_th EXCEPT ![t] = [pc |-> "call_once", ret |-> None]]
    /\ UNCHANGED <<CLR_CREATE_INSTANCE, loc_loads, meta_hosts>>

\* `CLR_CREATE_INSTANCE.call_once(|| ..)`: the first caller runs the closure, a
\* caller that finds it running spins, a caller that finds it complete takes
\* the stored value.
CLRCreateInstance_CallOnce(t) ==
    /\ loc_th[t].pc = "call_once"
    /\ CLR_CREATE_INSTANCE.status # "running"
    /\ IF CLR_CREATE_INSTANCE.status = "incomplete"
       THEN /\ CLR_CREATE_INSTANCE' = [CLR_CREATE_INSTANCE EXCEPT !.status = "running"]
            /\ loc_th' = [loc_th EXCEPT ![t].pc = "closure"]
       ELSE /\ loc_th' = [loc_th EXCEPT ![t].pc = "invoke"]
            /\ UNCHANGED CLR_CREATE_INSTANCE
    /\ UNCHANGED <<loc_calls, loc_loads, meta_hosts>>

\* The closure: `LoadLibraryA("mscoree.dll")`; Some(address of CLRCreateInstance)
\* when the module was loaded, None when it was not. Its value is stored for good.
OnceClosure(loaded) ==
    [status |-> "complete",
     value |-> Some(IF loaded THEN Some("CLRCreateInstance") ELSE None)]
CLRCreateInstance_Closure(t) ==
    /\ loc_th[t].pc = "closure"
    /\ \E loaded \in BOOLEAN : CLR_CREATE_INSTANCE' = OnceClosure(loaded)
    /\ loc_loads' = loc_loads + 1
    /\ loc_th' = [loc_th EXCEPT ![t].pc = "invoke"]
    /\ UNCHANGED <<loc_calls, meta_hosts>>

\* `if let Some(f) = value { hr = f(clsid, &T::IID, &mut result); Ok(result) or
\* Err(ApiError) } else { Err(Msg) }`: every call asks the runtime for an object.
CLRCreateInstance_Invoke(t) ==
    /\ loc_th[t].pc = "invoke"
    /\ IF IsSome(Unwrap(CLR_CREATE_INSTANCE.value))
       THEN \E ok \in BOOLEAN :
                IF ok
                THEN /\ meta_hosts' = meta_hosts + 1
                     /\ loc_th' = [loc_th EXCEPT ![t] =
                                      [pc |-> "done", ret |-> Some(Ok(meta_hosts + 1))]]
                ELSE /\ loc_th' = [loc_th EXCEPT ![t] =
                                      [pc |-> "done",
                                       ret |-> Some(Err("ApiError", "CLRCreateInstance"))]]
                     /\ UNCHANGED meta_hosts
       ELSE /\ loc_th' = [loc_th EXCEPT ![t] =
                             [pc |-> "done", ret |-> Some(Err("Msg", "CLRCreateInstance"))]]
            /\ UNCHANGED meta_hosts
    /\ UNCHANGED <<CLR_CREATE_INSTANCE, loc_calls, loc_loads>>

\* The caller takes the result.
CLRCreateInstance_Return(t) ==
    /\ loc_th[t].pc = "done"
    /\ loc_th' = [loc_th EXCEPT ![t] = LocateIdleThread]
    /\ UNCHANGED <<CLR_CREATE_INSTANCE, loc_calls, loc_loads, meta_hosts>>

(***************************************************************************)
(* clr/runtime.rs, clr/mod.rs: the COM references a session obtains         *)
(***************************************************************************)
\* run() is called at most MaxHandleRuns times on the session.
MaxHandleRuns == 2

HandleKinds ==
    {"meta_host", "runtime_info", "identity_manager", "identity_stream",
     "iclr_runtime_host", "host_control", "cor_runtime_host", "app_domain",
     "assembly", "mscorlib", "method", "type"}
NoHandles == [k \in HandleKinds |-> 0]

\* One statement: the foreign call it makes, the kind of handle the call
\* yields ("" for none) and who owns the reference: a wrapper in a local
\* variable ("local", released when the scope is left), a field of self.runtime
\* ("field", released when overwritten or when the session is dropped), or
\* nobody ("raw": a bare *mut c_void).
Stmt(call, kind, owner, fallible, scope_end) ==
    [call |-> call, kind |-> kind, owner |-> owner, fallible |-> fallible,
     scope_end |-> scope_end, skip_to |-> 0]

\* prepare() (statements 1..13) and the rest of run() (14..20), in order.
HandleStmts ==
    << Stmt("CLRCreateInstance", "meta_host", "local", TRUE, FALSE),
       Stmt("GetRuntime", "runtime_info", "local", TRUE, FALSE),
       Stmt("GetProcAddress", "", "", TRUE, FALSE),
       Stmt("GetCLRIdentityManager", "identity_manager", "local", TRUE, FALSE),
       Stmt("SHCreateMemStream", "identity_stream", "raw", FALSE, FALSE),
       Stmt("GetBindingIdentityFromStream", "", "", TRUE, FALSE),
       Stmt("GetInterface(ICLRRuntimeHost)", "iclr_runtime_host", "local", TRUE, FALSE),
       [Stmt("IsStarted", "", "branch", FALSE, FALSE) EXCEPT !.skip_to = 12],
       Stmt("RustClrControl::new", "host_control", "local", FALSE, FALSE),
       Stmt("SetHostControl", "", "", TRUE, FALSE),
       Stmt("Start", "", "", TRUE, FALSE),
       Stmt("GetInterface(ICorRuntimeHost)", "cor_runtime_host", "local", TRUE, FALSE),
       Stmt("CreateDomain", "app_domain", "field", TRUE, FALSE),
       Stmt("GetInterface(ICorRuntimeHost)", "cor_runtime_host", "field", TRUE, TRUE),
       Stmt("get_app_domain", "app_domain", "local", FALSE, FALSE),
       Stmt("Load_3", "assembly", "local", TRUE, FALSE),
       Stmt("get_assembly(mscorlib)", "mscorlib", "local", TRUE, FALSE),
       Stmt("get_EntryPoint", "method", "local", TRUE, FALSE),
       Stmt("GetType_2(System.GC)", "type", "local", TRUE, TRUE),
       Stmt("UnloadDomain", "", "", TRUE, FALSE) >>

Inc(f, k) == [f EXCEPT ![k] = @ + 1]
Plus(f, g) == [k \in HandleKinds |-> f[k] + g[k]]

HandleIdle ==
    /\ hd_phase = "created"
    /\ hd_pc = 0
    /\ hd_acq = NoHandles
    /\ hd_rel = NoHandles
    /\ hd_locals = NoHandles
    /\ hd_fields = {}
    /\ hd_runs = 0

\* ---- variant.rs: building SAFEARRAYs ----
\* An allocation is recorded with the number of times it was freed and whether
\* the returned wrapper owns it. SafeArrayPutElement copies the element into
\* the array (the copy belongs to the array and goes with it); SafeArrayDestroy
\* frees the array and what it contains.
MaxArgs == 2

VarTypes == {"VT_BOOL", "VT_I4", "VT_BSTR", "VT_I8", "VT_UNKNOWN"}

\* create_safe_array_args::<T>: T::var_type(), args.len(), and what each OLE
\* call answers (put_fail = i: the i-th SafeArrayPutElement fails, 0: none).
ArrayArgsInputs ==
    [fn : {"create_safe_array_args"}, vartype : VarTypes, len : 0..MaxArgs,
     create_ok : BOOLEAN, put_fail : 0..MaxArgs, create2_ok : BOOLEAN, put2_ok : BOOLEAN]

\* create_safe_args: args.len() VARIANTs each holding a BSTR.
SafeArgsInputs ==
    [fn : {"create_safe_args"}, vartype : {"VT_BSTR"}, len : 0..MaxArgs,
     create_ok : BOOLEAN, put_fail : 0..MaxArgs, create2_ok : {TRUE}, put2_ok : {TRUE}]

\* create_safe_array_buffer: create2_ok stands for SafeArrayAccessData,
\* put2_ok for SafeArrayUnaccessData.
BufferInputs ==
    [fn : {"create_safe_array_buffer"}, vartype : {"VT_UI1"}, len : 0..MaxArgs,
     create_ok : BOOLEAN, put_fail : {0}, create2_ok : BOOLEAN, put2_ok : BOOLEAN]

MarshalInputs == ArrayArgsInputs \cup SafeArgsInputs \cup BufferInputs

Alloc(heap, kind, idx) ==
    Append(heap, [kind |-> kind, idx |-> idx, frees |-> 0, owned |-> FALSE])

\* SafeArrayDestroy / SysFreeString / VariantClear on the allocation.
Free(heap, kind, idx) ==
    [j \in 1..Len(heap) |->
        IF heap[j].kind = kind /\ heap[j].idx = idx
        THEN [heap[j] EXCEPT !.frees = @ + 1] ELSE heap[j]]

\* SafeArrayWrapper::from_raw: the wrapper destroys the array on drop.
Wrap(heap, kind, idx) ==
    [j \in 1..Len(heap) |->
        IF heap[j].kind = kind /\ heap[j].idx = idx
        THEN [heap[j] EXCEPT !.owned = TRUE] ELSE heap[j]]

RECURSIVE FreeAll(_, _, _)
FreeAll(heap, kind, n) ==
    IF n = 0 THEN heap ELSE FreeAll(Free(heap, kind, n), kind, n - 1)

RECURSIVE AllocAll(_, _, _)
AllocAll(heap, kind, n) ==
    IF n = 0 THEN heap ELSE Alloc(AllocAll(heap, kind, n - 1), kind, n)

MsOk(heap) == [ok |-> TRUE, err |-> "", heap |-> heap]
MsErr(e, heap) == [ok |-> FALSE, err |-> e, heap |-> heap]

\* Arg.to_variant(): String and &str allocate a BSTR the VARIANT points to.
to_variant(heap, vartype, i) ==
    IF vartype = "VT_BSTR" THEN Alloc(heap, "bstr", i) ELSE heap

\* `if vartype == VT_BSTR { SysFreeString(bstr) }`
FreeBstr(heap, vartype, i) ==
    IF vartype = "VT_BSTR" THEN Free(heap, "bstr", i) ELSE heap

\* The wrapping of psa in a one-element SAFEARRAY of VARIANT.
WrapArgsArray(in, heap) ==
    IF ~in.create2_ok
    THEN MsErr("NullPointerError", Free(heap, "psa", 0))
    ELSE LET h == Alloc(heap, "args_array", 0) IN
         IF ~in.put2_ok
         THEN MsErr("ApiError", Free(Free(h, "psa", 0), "args_array", 0))
         ELSE MsOk(Wrap(h, "args_array", 0))

\* The loop over args of create_safe_array_args.
RECURSIVE PutArgs(_, _, _)
PutArgs(in, heap, i) ==
    IF i > in.len THEN WrapArgsArray(in, heap)
    ELSE LET h == to_variant(heap, in.vartype, i) IN
         IF in.vartype \notin {"VT_BOOL", "VT_I4", "VT_BSTR"}
         THEN MsErr("VariantUnsupported", h)
         ELSE IF in.put_fail = i
         THEN MsErr("ApiError", Free(FreeBstr(h, in.vartype, i), "psa", 0))
         ELSE PutArgs(in, FreeBstr(h, in.vartype, i), i + 1)

create_safe_array_args(in) ==
    IF ~in.create_ok THEN MsErr("NullPointerError", <<>>)
    ELSE PutArgs(in, Alloc(<<>>, "psa", 0), 1)

\* The VARIANTs handed in each own a BSTR; the function takes ownership.
create_safe_args_allocs(in) ==
    LET given == AllocAll(<<>>, "bstr", in.len) IN
    IF ~in.create_ok
    THEN MsErr("NullPointerError", FreeAll(given, "bstr", in.len))
    ELSE LET h == Alloc(given, "arg", 0) IN
         IF in.put_fail \in 1..in.len
         THEN MsErr("ApiError", FreeAll(Free(h, "arg", 0), "bstr", in.len))
         ELSE MsOk(Wrap(FreeAll(h, "bstr", in.len), "arg", 0))

create_safe_array_buffer(in) ==
    IF ~in.create_ok THEN MsErr("NullPointerError", <<>>)
    ELSE LET h == Alloc(<<>>, "sa", 0) IN
         IF ~in.create2_ok THEN MsErr("ApiError", Free(h, "sa", 0))
         ELSE IF ~in.put2_ok THEN MsErr("ApiError", Free(h, "sa", 0))
         ELSE MsOk(Wrap(h, "sa", 0))

MarshalIdle ==
    /\ ms_input = CHOOSE in \in BufferInputs : TRUE
    /\ ms_result = None

OnlyMarshal ==
    UNCHANGED <<vf_vars, bridge_vars, session_vars, patch_vars, reflect_vars, locate_vars,
                handle_vars, pwsh_vars>>

MarshalArrayArgs ==
    /\ ms_result = None
    /\ ms_input.fn = "create_safe_array_args"
    /\ ms_result' = Some(create_safe_array_args(ms_input))
    /\ UNCHANGED ms_input

MarshalSafeArgs ==
    /\ ms_result = None
    /\ ms_input.fn = "create_safe_args"
    /\ ms_result' = Some(create_safe_args_allocs(ms_input))
    /\ UNCHANGED ms_input

MarshalBuffer ==
    /\ ms_result = None
    /\ ms_input.fn = "create_safe_array_buffer"
    /\ ms_result' = Some(create_safe_array_buffer(ms_input))
    /\ UNCHANGED ms_input

\* ---- pwsh.rs: PowerShell::new and the shared compiled environment ----
PwshThreads == {"p1", "p2"}
MaxNews == 3

PwshIdleThread == [pc |-> "idle", ret |-> None, holds |-> FALSE]

PwshIdle ==
    /\ COMPILED_ENV = None
    /\ env_owner = None
    /\ ps_th = [t \in PwshThreads |-> PwshIdleThread]
    /\ ps_log = <<>>
    /\ ps_news = 0

OnlyPwsh ==
    UNCHANGED <<vf_vars, bridge_vars, session_vars, patch_vars, reflect_vars, locate_vars,
                handle_vars, marshal_vars>>

PsOk == [ok |-> TRUE, err |-> ""]
PsErr(e) == [ok |-> FALSE, err |-> e]

NeedsCompile_Always(guard) == TRUE

\* `if guard.is_none()`
NeedsCompile(guard) == guard = None

\* The environments compile_env has built so far.
Built == Cardinality({i \in 1..Len(ps_log) : ps_log[i] = "compiled"})

\* A thread that holds no PowerShell calls PowerShell::new().
PowerShellNew_Call(t) ==
    /\ ps_th[t].pc = "idle" /\ ~ps_th[t].holds
    /\ ps_news < MaxNews
    /\ ps_news' = ps_news + 1
    /\ ps_th' = [ps_th EXCEPT ![t] = [PwshIdleThread EXCEPT !.pc = "new_lock"]]
    /\ UNCHANGED <<COMPILED_ENV, env_owner, ps_log>>

\* `let mut guard = COMPILED_ENV.lock();`
PowerShellNew_Lock(t) ==
    /\ ps_th[t].pc = "new_lock"
    /\ env_owner = None
    /\ env_owner' = Some(t)
    /\ ps_th' = [ps_th EXCEPT ![t].pc = "new_init"]
    /\ UNCHANGED <<COMPILED_ENV, ps_log, ps_news>>

\* `if guard.is_none() { *guard = Some(compile_env()?); }`: compile_env
\* succeeds or fails; on failure `?` returns the error and the guard is dropped
\* with the slot as it was.
PowerShellNew_Init(t) ==
    /\ ps_th[t].pc = "new_init"
    /\ IF NeedsCompile(COMPILED_ENV)
       THEN \E compiled \in BOOLEAN :
            IF compiled
            THEN /\ COMPILED_ENV' = Some(Built + 1)
                 /\ ps_log' = Append(ps_log, "compiled")
                 /\ ps_th' = [ps_th EXCEPT ![t].pc = "new_runspace"]
                 /\ UNCHANGED env_owner
            ELSE /\ ps_log' = Append(ps_log, "compile_failed")
                 /\ ps_th' = [ps_th EXCEPT ![t].pc = "idle",
                                           ![t].ret = Some(PsErr("compile_env"))]
                 /\ env_owner' = None
                 /\ UNCHANGED COMPILED_ENV
       ELSE /\ ps_log' = Append(ps_log, "reused")
            /\ ps_th' = [ps_th EXCEPT ![t].pc = "new_runspace"]
            /\ UNCHANGED <<COMPILED_ENV, env_owner>>
    /\ UNCHANGED ps_news

\* `guard.as_ref().ok_or(..)?`, the CreateRunspace invocation and the check of
\* the instance id; the guard is dropped when new() returns.
PowerShellNew_CreateRunspace(t) ==
    /\ ps_th[t].pc = "new_runspace"
    /\ \E outcome \in {"ok", "invoke_failed", "negative_id"} :
          ps_th' = [ps_th EXCEPT
                      ![t].pc = "idle",
                      ![t].holds = IsSome(COMPILED_ENV) /\ outcome = "ok",
                      ![t].ret = IF COMPILED_ENV = None
                                 THEN Some(PsErr("PowerShell environment not initialized"))
                                 ELSE IF outcome = "ok" THEN Some(PsOk)
                                 ELSE IF outcome = "invoke_failed" THEN Some(PsErr("invoke"))
                                 ELSE Some(PsErr("CreateRunspace failed"))]
    /\ env_owner' = None
    /\ UNCHANGED <<COMPILED_ENV, ps_log, ps_news>>

\* impl Drop for PowerShell: `let guard = COMPILED_ENV.lock();`
PowerShellDrop_Lock(t) ==
    /\ ps_th[t].pc = "idle" /\ ps_th[t].holds
    /\ env_owner = None
    /\ env_owner' = Some(t)
    /\ ps_th' = [ps_th EXCEPT ![t].pc = "drop_close"]
    /\ UNCHANGED <<COMPILED_ENV, ps_log, ps_news>>

\* `if let Some(env) = guard.as_ref() { let _ = ..invoke("CloseRunspace", ..); }`
PowerShellDrop_Close(t) ==
    /\ ps_th[t].pc = "drop_close"
    /\ env_owner' = None
    /\ ps_th' = [ps_th EXCEPT ![t].pc = "idle", ![t].holds = FALSE]
    /\ UNCHANGED <<COMPILED_ENV, ps_log, ps_news>>

LateIdle == LocateIdle /\ HandleIdle /\ MarshalIdle /\ PwshIdle

OnlyHandles ==
    UNCHANGED <<vf_vars, bridge_vars, session_vars, patch_vars, reflect_vars, locate_vars,
                marshal_vars, pwsh_vars>>

\* run() is called.
HandleRun ==
    /\ hd_phase \in {"created", "returned"}
    /\ hd_runs < MaxHandleRuns
    /\ hd_runs' = hd_runs + 1
    /\ hd_phase' = "running"
    /\ hd_pc' = 1
    /\ UNCHANGED <<hd_acq, hd_rel, hd_locals, hd_fields>>

\* One statement of prepare()/run(): when its call fails, `?` returns and the
\* locals go out of scope; when it succeeds the reference goes to its owner.
\* Leaving a scope releases what the wrappers in its locals hold; a bare pointer
\* is not among them.
HandleStmt ==
    /\ hd_phase = "running"
    /\ LET st == HandleStmts[hd_pc] IN
       IF st.owner = "branch"
       THEN /\ \E started \in BOOLEAN :
                   hd_pc' = IF started THEN st.skip_to ELSE hd_pc + 1
            /\ UNCHANGED <<hd_phase, hd_acq, hd_rel, hd_locals, hd_fields, hd_runs>>
       ELSE \E ok \in (IF st.fallible THEN BOOLEAN ELSE {TRUE}) :
            IF ~ok
            THEN /\ hd_rel' = Plus(hd_rel, hd_locals)
                 /\ hd_locals' = NoHandles
                 /\ hd_phase' = "returned" /\ hd_pc' = 0
                 /\ UNCHANGED <<hd_acq, hd_fields, hd_runs>>
            ELSE LET acq == IF st.kind = "" THEN hd_acq ELSE Inc(hd_acq, st.kind)
                     held == IF st.owner = "local" THEN Inc(hd_locals, st.kind)
                             ELSE hd_locals
                     overwritten == IF st.owner = "field" /\ st.kind \in hd_fields
                                    THEN Inc(hd_rel, st.kind) ELSE hd_rel
                     leave == st.scope_end \/ hd_pc = Len(HandleStmts)
                 IN
                 /\ hd_acq' = acq
                 /\ hd_fields' = IF st.owner = "field" THEN hd_fields \cup {st.kind}
                                 ELSE hd_fields
                 /\ hd_rel' = IF leave THEN Plus(overwritten, held) ELSE overwritten
                 /\ hd_locals' = IF leave THEN NoHandles ELSE held
                 /\ IF hd_pc = Len(HandleStmts)
                    THEN hd_phase' = "returned" /\ hd_pc' = 0
                    ELSE hd_phase' = hd_phase /\ hd_pc' = hd_pc + 1
                 /\ UNCHANGED hd_runs

\* The session is dropped: Stop, then the fields of self.runtime are dropped.
HandleDrop ==
    /\ hd_phase \in {"created", "returned"}
    /\ hd_phase' = "dropped"
    /\ hd_rel' = [k \in HandleKinds |-> hd_rel[k] + (IF k \in hd_fields THEN 1 ELSE 0)]
    /\ hd_fields' = {}
    /\ UNCHANGED <<hd_pc, hd_acq, hd_locals, hd_runs>>

\* ---- com/itype.rs: lookups on a _Type ----
\* A type has at most MaxMembers members of a kind.
MaxMembers == 2
MemberNames == {"A", "B"}
\* HRESULTs a foreign call answers: S_OK and E_FAIL (0x80004005).
Statuses == {0, -2147467259}

\* What SafeArrayGetElement and ToString answer for one member of the array.
Members == [hr : Statuses, ptr : {None} \cup {Some(n) : n \in MemberNames}, text_hr : Statuses]
RECURSIVE SeqsUpTo(_, _)
SeqsUpTo(S, n) ==
    IF n = 0 THEN {<<>>}
    ELSE SeqsUpTo(S, n - 1) \cup {Append(q, x) : q \in {r \in SeqsUpTo(S, n - 1) : Len(r) = n - 1}, x \in S}

\* A lookup by name (GetProperty, GetMethod_6 answer hr and a pointer, the cast
\* of the pointer succeeds or not) or an enumeration (GetMethods, GetProperties
\* answer hr and an array, null or not).
LookupOps ==
    [kind : {"property", "method"}, name : {"A"}, hr : Statuses,
     ptr : {None, Some("A")}, cast : BOOLEAN, array : {None}]
EnumOps ==
    [kind : {"methods", "properties", "method_signature", "property_signature"},
     name : MemberNames, hr : Statuses, ptr : {None}, cast : {TRUE},
     array : {None} \cup {Some(a) : a \in SeqsUpTo(Members, MaxMembers)}]
ReflectOps == LookupOps \cup EnumOps

\* Result<T> of the reflection layer: Ok(value), Err(kind(op, hr)), or the
\* process faulting.
RfOk(v) == [ok |-> TRUE, kind |-> "Ok", op |-> "", hr |-> 0, value |-> v]
RfErr(kind, op, hr) == [ok |-> FALSE, kind |-> kind, op |-> op, hr |-> hr, value |-> <<>>]
RfFault == RfErr("AccessViolation", "", 0)

\* _MethodInfo::from_raw / _PropertyInfo::from_raw: IUnknown::from_raw(raw).cast();
\* for a null `raw` the behaviour is undefined: the cast calls through the null
\* pointer and faults, or a handle around null comes back.
from_raw(type, raw, cast) ==
    IF raw = None THEN {RfFault, RfOk(<<None>>)}
    ELSE IF cast THEN {RfOk(<<raw>>)}
    ELSE {RfErr("CastingError", type, 0)}

\* _Type::property
Type_property(f) ==
    IF f.hr = 0 /\ f.ptr # None
    THEN from_raw("_PropertyInfo", f.ptr, f.cast)
    ELSE {RfErr("ApiError", "GetProperty", f.hr)}

\* _Type::method, _Type::GetMethod_6
GetMethod_6(f) ==
    IF f.hr = 0
    THEN from_raw("_MethodInfo", f.ptr, f.cast)
    ELSE {RfErr("ApiError", "GetMethod_6", f.hr)}
Type_method(f) == GetMethod_6(f)

\* The loop of _Type::methods / _Type::properties over the array's elements.
RECURSIVE Collect(_, _, _)
Collect(elems, i, acc) ==
    IF i > Len(elems) THEN RfOk(acc)
    ELSE LET e == elems[i] IN
         IF e.hr # 0 \/ e.ptr = None THEN RfErr("ApiError", "SafeArrayGetElement", e.hr)
         ELSE IF e.text_hr # 0 THEN RfErr("ApiError", "ToString", e.text_hr)
         ELSE Collect(elems, i + 1, Append(acc, [name |-> Unwrap(e.ptr), info |-> e.ptr]))

\* _Type::methods (getter GetMethods), _Type::properties (getter GetProperties)
Enumerate(getter, f) ==
    IF f.hr # 0 THEN RfErr("ApiError", getter, f.hr)
    ELSE IF f.array = None THEN RfErr("NullPointerError", getter, 0)
    ELSE Collect(Unwrap(f.array), 1, <<>>)
Type_methods(f) == Enumerate("GetMethods", f)
Type_properties(f) == Enumerate("GetProperties", f)

\* `if let Ok(list) = list { for (n, info) in list { if n == name { return Ok(info) } } }`
\* and the error after it.
BySignature(list, name, notfound) ==
    IF list.ok /\ \E i \in 1..Len(list.value) : list.value[i].name = name
    THEN LET i == CHOOSE i \in 1..Len(list.value) :
                      /\ list.value[i].name = name
                      /\ \A j \in 1..(i - 1) : list.value[j].name # name
         IN RfOk(<<list.value[i].info>>)
    ELSE RfErr(notfound, "", 0)
\* _Type::method_signature, _Type::property_signature
Type_method_signature(f) == BySignature(Type_methods(f), f.name, "MethodNotFound")
Type_property_signature(f) == BySignature(Type_properties(f), f.name, "PropertyNotFound")

\* The results the lookup `f` can return.
Outcomes(f) ==
    CASE f.kind = "property" -> Type_property(f)
      [] f.kind = "method" -> Type_method(f)
      [] f.kind = "methods" -> {Type_methods(f)}
      [] f.kind = "properties" -> {Type_properties(f)}
      [] f.kind = "method_signature" -> {Type_method_signature(f)}
      [] f.kind = "property_signature" -> {Type_property_signature(f)}

ReflectIdle ==
    /\ rf_op = CHOOSE f \in LookupOps : TRUE
    /\ rf_result = None

\* One lookup on a _Type.
Lookup ==
    /\ rf_result = None
    /\ \E r \in Outcomes(rf_op) : rf_result' = Some(r)
    /\ UNCHANGED <<rf_op, vf_vars, bridge_vars, session_vars, patch_vars, late_vars>>

InitReflect ==
    /\ vf_buffer = ExeHeader /\ vf_result = "none"
    /\ BridgeIdle
    /\ source \in {CHOOSE x \in Sources : TRUE} /\ SessionIdle
    /\ pe_input = CHOOSE i \in PatchInputs : TRUE
    /\ PatchIdle
    /\ rf_op \in ReflectOps
    /\ rf_result = None
    /\ LateIdle

NextReflect == Lookup

SpecReflect == InitReflect /\ [][NextReflect]_vars

AuxIdle ==
    /\ pe_input = CHOOSE i \in PatchInputs : TRUE
    /\ PatchIdle
    /\ ReflectIdle
    /\ LateIdle

OnlyPatch == UNCHANGED <<vf_vars, bridge_vars, session_vars, reflect_vars, late_vars, pe_input>>

\* The lookups that end in `ptr`, the native address of Environment.Exit: each is
\* followed by `?`, the cast by map_err(Msg). Then `addr_exit = ptr.byref`,
\* `old = 0`, `size = 1`.
PatchExit_Resolve ==
    /\ pe_pc = "start"
    /\ \E ok \in BOOLEAN, kind \in {"ApiError", "Msg"} :
           IF ok
           THEN /\ pe_pc' = "protect"
                /\ pe_locals' = [ptr |-> pe_input.addr, addr_exit |-> pe_input.addr,
                                 size |-> 1, old |-> 0]
                /\ UNCHANGED pe_result
           ELSE /\ pe_pc' = "done"
                /\ pe_result' = Some(Err(kind, "resolve"))
                /\ UNCHANGED pe_locals
    /\ UNCHANGED <<mem_protect, mem_bytes, protect_calls>>
    /\ OnlyPatch

\* One NtProtectVirtualMemory(NtCurrentProcess(), &mut addr_exit, &mut size, new, &mut old)
\* at `at`: on success run on to `next`, on failure return Err(Msg).
ProtectStep(at, new, next, final) ==
    /\ pe_pc = at
    /\ \E success \in BOOLEAN :
           LET r == NtProtectVirtualMemory(mem_protect, pe_locals.addr_exit,
                                           pe_locals.size, new)
           IN
           /\ protect_calls' = Append(protect_calls,
                                      [base |-> pe_locals.addr_exit, size |-> pe_locals.size,
                                       protect |-> new, success |-> success])
           /\ IF success
              THEN /\ mem_protect' = r.protect
                   /\ pe_locals' = [pe_locals EXCEPT !.addr_exit = r.base,
                                                     !.size = r.size, !.old = r.old]
                   /\ pe_pc' = next
                   /\ pe_result' = final
              ELSE /\ pe_pc' = "done"
                   /\ pe_result' = Some(Err("Msg", at))
                   /\ UNCHANGED <<mem_protect, pe_locals>>
    /\ UNCHANGED mem_bytes
    /\ OnlyPatch

\* `if !NT_SUCCESS(NtProtectVirtualMemory(.., PAGE_EXECUTE_READWRITE, &mut old)) { return Err(Msg(..)) }`
PatchExit_Protect == ProtectStep("protect", PAGE_EXECUTE_READWRITE, "write", None)

\* `*(ptr.byref as *mut u8) = 0xC3`
PatchExit_Write ==
    /\ pe_pc = "write"
    /\ mem_bytes' = [mem_bytes EXCEPT ![pe_locals.ptr] = RET]
    /\ pe_pc' = "restore"
    /\ UNCHANGED <<mem_protect, pe_locals, pe_result, protect_calls>>
    /\ OnlyPatch

\* `if !NT_SUCCESS(NtProtectVirtualMemory(.., old, &mut old)) { return Err(Msg(..)) }; Ok(())`
PatchExit_Restore ==
    ProtectStep("restore", RestoreProtection(pe_locals.old), "done", Some(Ok("")))

InitPatch ==
    /\ vf_buffer = ExeHeader /\ vf_result = "none"
    /\ BridgeIdle
    /\ source \in {CHOOSE x \in Sources : TRUE} /\ SessionIdle
    /\ pe_input \in PatchInputs
    /\ PatchIdle
    /\ ReflectIdle
    /\ LateIdle

NextPatch ==
    \/ PatchExit_Resolve
    \/ PatchExit_Protect
    \/ PatchExit_Write
    \/ PatchExit_Restore

SpecPatch == InitPatch /\ [][NextPatch]_vars

(***************************************************************************)
(* The specifications                                                      *)
(***************************************************************************)

ValidateIdle == vf_buffer = ExeHeader /\ vf_result = "none"

InitValidate ==
    /\ vf_buffer \in Headers /\ vf_result = "none"
    /\ BridgeIdle
    /\ source \in {CHOOSE x \in Sources : TRUE} /\ SessionIdle
    /\ AuxIdle

NextValidate == ValidateFile

SpecValidate == InitValidate /\ [][NextValidate]_vars

InitBridge ==
    /\ ValidateIdle
    /\ BridgeIdle
    /\ source \in {CHOOSE x \in Sources : TRUE} /\ SessionIdle
    /\ AuxIdle

NextBridge ==
    \/ \E t \in HostThreads, b \in Buffers, i \in Identities :
           SetCurrentAssembly_Lock(t, b, i) /\ OnlyBridge
    \/ \E t \in HostThreads : SetCurrentAssembly_Write(t) /\ OnlyBridge
    \/ \E t \in HostThreads : ClearCurrentAssembly_Lock(t) /\ OnlyBridge
    \/ \E t \in HostThreads : ClearCurrentAssembly_Clear(t) /\ OnlyBridge
    \/ \E t \in HostThreads : ClearCurrentAssembly_PendingLock(t) /\ OnlyBridge
    \/ \E t \in HostThreads : ClearCurrentAssembly_Drain(t) /\ OnlyBridge
    \/ \E t \in RuntimeThreads, i \in Identities : ProvideAssembly_Call(t, i) /\ OnlyBridge
    \/ \E t \in RuntimeThreads : ProvideAssembly_Lock(t) /\ OnlyBridge
    \/ \E t \in RuntimeThreads : ProvideModule(t) /\ OnlyBridge
    \/ \E t \in RuntimeThreads : ProvideAssembly_Check(t) /\ OnlyBridge
    \/ \E t \in RuntimeThreads : ProvideAssembly_Push(t) /\ OnlyBridge
    \/ \E t \in RuntimeThreads : ProvideAssembly_Return(t) /\ OnlyBridge
    \/ \E t \in RuntimeThreads : Returned(t) /\ OnlyBridge

SpecBridge == InitBridge /\ [][NextBridge]_vars

\* The steps of thread t inside a call: after the call has started, before its
\* result is taken.
InCallStep(t) ==
    \/ SetCurrentAssembly_Write(t) /\ OnlyBridge
    \/ ClearCurrentAssembly_Clear(t) /\ OnlyBridge
    \/ ClearCurrentAssembly_Drain(t) /\ OnlyBridge
    \/ ProvideAssembly_Check(t) /\ OnlyBridge
    \/ ProvideAssembly_Return(t) /\ OnlyBridge
\* The steps of thread t that acquire a spin::Mutex: `lock()` retries until the
\* compare-exchange finds the lock free.
AcquireStep(t) ==
    \/ ClearCurrentAssembly_PendingLock(t) /\ OnlyBridge
    \/ ProvideAssembly_Lock(t) /\ OnlyBridge
    \/ ProvideAssembly_Push(t) /\ OnlyBridge

\* The store used by one session thread (prepare() and the teardown run on the
\* thread that owns the RustClr) and the runtime's threads.
SessionThread == "h1"
NextBridgeFair ==
    \/ \E b \in Buffers, i \in Identities :
           SetCurrentAssembly_Lock(SessionThread, b, i) /\ OnlyBridge
    \/ SetCurrentAssembly_Write(SessionThread) /\ OnlyBridge
    \/ ClearCurrentAssembly_Lock(SessionThread) /\ OnlyBridge
    \/ ClearCurrentAssembly_Clear(SessionThread) /\ OnlyBridge
    \/ ClearCurrentAssembly_PendingLock(SessionThread) /\ OnlyBridge
    \/ ClearCurrentAssembly_Drain(SessionThread) /\ OnlyBridge
    \/ \E t \in RuntimeThreads, i \in Identities : ProvideAssembly_Call(t, i) /\ OnlyBridge
    \/ \E t \in RuntimeThreads : ProvideAssembly_Lock(t) /\ OnlyBridge
    \/ \E t \in RuntimeThreads : ProvideAssembly_Check(t) /\ OnlyBridge
    \/ \E t \in RuntimeThreads : ProvideAssembly_Push(t) /\ OnlyBridge
    \/ \E t \in RuntimeThreads : ProvideAssembly_Return(t) /\ OnlyBridge
    \/ \E t \in RuntimeThreads : Returned(t) /\ OnlyBridge

\* The store under fair scheduling: a thread inside a call keeps running, and a
\* thread spinning on a lock that is free again and again gets it. Whether and
\* when a call starts is left to the caller.
SpecBridgeFair ==
    /\ InitBridge /\ [][NextBridgeFair]_vars
    /\ \A t \in Threads : WF_vars(InCallStep(t)) /\ SF_vars(AcquireStep(t))

Init ==
    /\ ValidateIdle
    /\ BridgeIdle
    /\ source \in Sources /\ SessionIdle
    /\ AuxIdle

Next ==
    \/ New
    \/ Run
    \/ CreateMetaHost
    \/ GetRuntimeInfo
    \/ GetProcAddress
    \/ IdentityManager
    \/ GetIdentityStream
    \/ GetClrRuntimeHost
    \/ PrepareSetCurrentAssembly
    \/ CheckStarted
    \/ SetHostControl
    \/ StartRuntime
    \/ GetICorRuntimeHost
    \/ InitAppDomain
    \/ SaveRuntimeHost
    \/ GetAppDomain
    \/ LoadBytes
    \/ CreateStringArray
    \/ CreateSafeArgs
    \/ GetMscorlib
    \/ PatchExit
    \/ Redirect
    \/ AssemblyRun
    \/ Capture
    \/ GcResolve
    \/ GcCollectFirst
    \/ GcWait
    \/ GcCollectSecond
    \/ RunUnloadDomain
    \/ DirectUnloadDomain
    \/ Drop

Spec == Init /\ [][Next]_vars

\* Every part of the model other than the late sub-models, not in use.
RestIdle ==
    /\ ValidateIdle
    /\ BridgeIdle
    /\ source \in {CHOOSE x \in Sources : TRUE} /\ SessionIdle
    /\ pe_input = CHOOSE i \in PatchInputs : TRUE
    /\ PatchIdle
    /\ ReflectIdle

InitLocate == RestIdle /\ LateIdle
NextLocate ==
    \/ \E t \in LocateThreads : CLRCreateInstance_Call(t) /\ OnlyLocate
    \/ \E t \in LocateThreads : CLRCreateInstance_CallOnce(t) /\ OnlyLocate
    \/ \E t \in LocateThreads : CLRCreateInstance_Closure(t) /\ OnlyLocate
    \/ \E t \in LocateThreads : CLRCreateInstance_Invoke(t) /\ OnlyLocate
    \/ \E t \in LocateThreads : CLRCreateInstance_Return(t) /\ OnlyLocate
SpecLocate == InitLocate /\ [][NextLocate]_vars

InitHandles == RestIdle /\ LateIdle
NextHandles ==
    \/ HandleRun /\ OnlyHandles
    \/ HandleStmt /\ OnlyHandles
    \/ HandleDrop /\ OnlyHandles
SpecHandles == InitHandles /\ [][NextHandles]_vars

InitMarshal ==
    /\ RestIdle /\ LocateIdle /\ HandleIdle /\ PwshIdle
    /\ ms_input \in MarshalInputs
    /\ ms_result = None
NextMarshal ==
    \/ MarshalArrayArgs /\ OnlyMarshal
    \/ MarshalSafeArgs /\ OnlyMarshal
    \/ MarshalBuffer /\ OnlyMarshal
SpecMarshal == InitMarshal /\ [][NextMarshal]_vars

InitPwsh == RestIdle /\ LateIdle
NextPwsh ==
    \/ \E t \in PwshThreads : PowerShellNew_Call(t) /\ OnlyPwsh
    \/ \E t \in PwshThreads : PowerShellNew_Lock(t) /\ OnlyPwsh
    \/ \E t \in PwshThreads : PowerShellNew_Init(t) /\ OnlyPwsh
    \/ \E t \in PwshThreads : PowerShellNew_CreateRunspace(t) /\ OnlyPwsh
    \/ \E t \in PwshThreads : PowerShellDrop_Lock(t) /\ OnlyPwsh
    \/ \E t \in PwshThreads : PowerShellDrop_Close(t) /\ OnlyPwsh
SpecPwsh == InitPwsh /\ [][NextPwsh]_vars



----------------------------------------------------------------------------
(***************************************************************************)
(* Claims about validate_file                                              *)
(***************************************************************************)

\* What the specification calls a valid managed executable: the header parses,
\* the image is marked executable, is not a library, and its managed-metadata
\* directory entry is present and non-empty.
IsManagedExecutable(b) ==
    /\ b.e_magic = 23117 /\ b.Signature = 17744
    /\ BitAnd(b.Characteristics, 2) # 0
    /\ BitAnd(b.Characteristics, 8192) = 0
    /\ b.ComVirtualAddress # 0 /\ b.ComSize # 0

\* The image targets a console or GUI subsystem, which the host can run.
IsHostable(b) == b.Subsystem \in {2, 3}

\* C9: for every buffer that is a valid managed executable, validate_file returns
\* Ok, whatever the other characteristic bits of the header are.
\* (Stated for the images that do not target the native subsystem, which the
\* specification rejects elsewhere.)
C9_ValidManagedIsOk ==
    (vf_result # "none" /\ IsManagedExecutable(vf_buffer) /\ IsHostable(vf_buffer))
        => vf_result = "Ok"

\* The classification the specification gives, in its order of precedence.
SpecifiedVerdict(b) ==
    IF ~(b.e_magic = 23117 /\ b.Signature = 17744)
    THEN "InvalidNtHeader"
    ELSE IF \/ BitAnd(b.Characteristics, 8192) # 0
            \/ BitAnd(b.Characteristics, 2) = 0
            \/ b.Subsystem = 1
    THEN "InvalidExecutable"
    ELSE IF b.ComVirtualAddress = 0 \/ b.ComSize = 0 THEN "NotDotNet"
    ELSE "Ok"

\* C10: validate_file never returns Ok for a non-managed or non-hostable image,
\* and it reports InvalidNtHeader, else InvalidExecutable, else NotDotNet in that
\* order of precedence.
C10_FailureClassified ==
    (vf_result # "none" /\ SpecifiedVerdict(vf_buffer) # "Ok")
        => vf_result = SpecifiedVerdict(vf_buffer)

----------------------------------------------------------------------------
(***************************************************************************)
(* Claims about the assembly store                                         *)
(***************************************************************************)

\* A ProvideAssembly call that has returned and not yet been taken by its caller.
Finished(t) == th[t].pc = "pa_done"

\* The slot the request read held nothing, or an identity other than the requested.
ReadMismatch(t) ==
    th[t].seen = None \/ Unwrap(th[t].seen).identity # th[t].identity

PostPrepareSteps ==
    {"load_bytes", "create_string_array", "create_safe_args", "get_mscorlib",
     "patch_exit", "redirect", "assembly_run", "capture", "gc_resolve",
     "gc_collect_1", "gc_wait", "gc_collect_2"}

RunReturned == s_pc = "returned" /\ IsSome(s_result)
RunFailedAfterPrepare ==
    /\ RunReturned
    /\ ~Unwrap(s_result).ok
    /\ Unwrap(s_result).at \in PostPrepareSteps

\* C3: when a step of run() after prepare() fails (assembly load, argument
\* marshaling, mscorlib lookup, exit patch, output redirection, entry-point
\* invocation, output capture, forced garbage collection), the application
\* domain prepare() created is unloaded by the time run() has returned the error.
C3_FailureUnloadsDomain ==
    RunFailedAfterPrepare => Unwrap(clr.app_domain) \notin rt.domains

\* C4: whenever run() has returned, with output or with an error, the staged
\* image/identity slot is empty and the pending-stream list is empty.
C4_ReturnLeavesNothingStaged ==
    RunReturned =>
        /\ CURRENT_ASSEMBLY = None
        /\ PENDING_STREAMS = <<>>

\* C5: a call of unload_domain on a session whose domain an earlier call has
\* already unloaded is a no-op: the runtime host is never asked to unload an
\* application domain that is no longer loaded.
C5_SecondUnloadIsNoOp ==
    \A j \in 1..Len(unload_log) : unload_log[j].loaded

\* C6: Completed and Failed are terminal: a run() of the session that follows
\* one that has returned (runs > 1) creates no application domain and does not
\* invoke the entry point.
C6_TerminalStates ==
    [][runs > 1 => (rt'.created = rt.created /\ invoked' = invoked)]_vars

IsNoArgMain(m) == m.name = T_Main /\ m.params = <<>>
IsStringArrayMain(m) == m.name = T_Main /\ m.params = T_StringArray
ConfiguredArgs == IF IsSome(source.args) THEN Unwrap(source.args) ELSE <<>>

\* C7: an entry point of the form Main() is invoked with no parameters, whatever
\* argument list the session was configured with; an entry point of the form
\* Main(System.String[]) is invoked with one parameter, a string array holding
\* exactly the configured arguments in their order, empty when none were configured.
C7_EntryDispatch ==
    \A i \in 1..Len(invoked) :
        LET m == invoked[i].method
            p == invoked[i].parameters
        IN
        /\ IsNoArgMain(m) => p = None
        /\ IsStringArrayMain(m) =>
               /\ IsSome(p)
               /\ Len(Unwrap(p)) = 1
               /\ Unwrap(p)[1].vt = "VT_ARRAY|VT_BSTR"
               /\ Unwrap(p)[1].parray = ConfiguredArgs

\* A Main(System.String[]) entry point has been invoked by a session configured
\* with the arguments "a", "b".
C7_Witness ==
    /\ source.args = Some(<<"a", "b">>)
    /\ \E i \in 1..Len(invoked) :
           /\ IsStringArrayMain(invoked[i].method)
           /\ Unwrap(invoked[i].parameters)[1].parray = <<"a", "b">>

\* C8: only an entry point of the form Main() or Main(System.String[]) is ever
\* invoked; for any other method name or parameter list run() returns
\* MethodNotFound and nothing is invoked.
C8_OnlyTwoSignatures ==
    /\ \A i \in 1..Len(invoked) :
           IsNoArgMain(invoked[i].method) \/ IsStringArrayMain(invoked[i].method)
    /\ (/\ RunReturned
        /\ Unwrap(s_result).at = "assembly_run"
        /\ Unwrap(s_result).val # "ApiError") =>
           /\ Unwrap(s_result).val = "MethodNotFound"
           /\ ~IsNoArgMain(Unwrap(clr.buffer).entry)
           /\ ~IsStringArrayMain(Unwrap(clr.buffer).entry)

(***************************************************************************)
(* The store: module requests, the pending list, locks                     *)
(***************************************************************************)

\* A step in which thread t's ProvideModule call runs.
ModuleCallOf(t) == th[t].pc = "idle" /\ th'[t].pc = "pm_done"

\* C11: ProvideModule answers every request with the not-found status
\* 0x80070002, whatever is staged, and changes neither the staged slot nor the
\* pending-stream list (nor a lock, the stream count or a stream) and writes
\* no out-parameter.
C11_ModuleAlwaysNotFound ==
    [][\A t \in Threads :
           ModuleCallOf(t) =>
               /\ th'[t].ret = Some(-2147024894)
               /\ th'[t].out = Unwritten
               /\ UNCHANGED store_vars]_vars

\* A module request has been answered while an image is staged and a stream is
\* on the pending list.
C11_Witness ==
    /\ \E t \in Threads : th[t].pc = "pm_done"
    /\ IsSome(CURRENT_ASSEMBLY)
    /\ PENDING_STREAMS # <<>>

(***************************************************************************)
(* patch_exit                                                              *)
(***************************************************************************)

PatchReturned == pe_pc = "done" /\ IsSome(pe_result)
ProtectFailed == \E k \in 1..Len(protect_calls) : ~protect_calls[k].success

\* C12: the first protection change asks for one byte at the resolved address
\* and for PAGE_EXECUTE_READWRITE; the only byte ever written is 0xC3 at that
\* address, and only after the first change succeeded; the second change asks
\* for the protection in effect before the first, and after it every page has
\* its former protection; a failure of either change is returned as Err(Msg),
\* never Ok.
C12_PatchOneByte ==
    LET addr == pe_input.addr
        n == Len(protect_calls)
    IN
    /\ n >= 1 => /\ protect_calls[1].base = addr
                 /\ protect_calls[1].size = 1
                 /\ protect_calls[1].protect = 64
    /\ \A a \in Addresses :
           mem_bytes[a] # pe_input.bytes[a] =>
               /\ a = addr
               /\ mem_bytes[a] = 195
               /\ n >= 1 /\ protect_calls[1].success
    /\ n >= 2 => protect_calls[2].protect = pe_input.protect[PageOf(addr)]
    /\ n <= 2
    /\ (PatchReturned /\ ProtectFailed) =>
           ~Unwrap(pe_result).ok /\ Unwrap(pe_result).val = "Msg"
    /\ (PatchReturned /\ Unwrap(pe_result).ok) =>
           /\ n = 2
           /\ mem_bytes[addr] = 195
           /\ mem_protect = pe_input.protect

\* patch_exit has returned Ok for an address in the middle of a page that was
\* PAGE_EXECUTE_READ, next to a page with another protection.
C12_Witness ==
    /\ PatchReturned /\ Unwrap(pe_result).ok
    /\ pe_input.addr = 1
    /\ pe_input.protect[0] = 32 /\ pe_input.protect[1] = 2
    /\ pe_input.bytes[1] = 85
    /\ mem_bytes[1] = 195

(***************************************************************************)
(* The session: discovery, output, the cached domain, ordering             *)
(***************************************************************************)

\* C13: with the unsupported version tag requested, every run() fails in
\* prepare() with a discovery error (the meta host or the runtime information
\* cannot be had) before a context exists: no CreateDomain call is made, the
\* runtime is not started and app_domain stays unset.
C13_UnsupportedVersionFailsEarly ==
    source.runtime_version = Some("UNKNOWN") =>
        /\ rt.created = 0
        /\ ~rt.started
        /\ clr.app_domain = None
        /\ \A k \in 1..Len(calls) : calls[k] \notin {"CreateDomain", "Start"}
        /\ RunReturned =>
               /\ ~Unwrap(s_result).ok
               /\ Unwrap(s_result).val \in {"MetaHostCreationError", "RuntimeInfoError"}

\* run() has returned the runtime-information error for the unsupported tag.
C13_Witness ==
    /\ source.runtime_version = Some("UNKNOWN")
    /\ RunReturned
    /\ Unwrap(s_result).val = "RuntimeInfoError"
    /\ calls = <<"CLRCreateInstance", "GetRuntime">>

\* C14: a run() that succeeds returns the text the redirected StringWriter
\* captured when output redirection was enabled, and exactly the empty string
\* when it was not; without redirection no redirect or capture call is made.
C14_OutputIsCapturedText ==
    /\ (RunReturned /\ Unwrap(s_result).ok) =>
           Unwrap(s_result).val = (IF source.redirect_output THEN "console text" ELSE "")
    /\ ~source.redirect_output =>
           \A k \in 1..Len(calls) : calls[k] \notin {"redirect", "capture"}

\* A run() with redirection enabled has returned the captured text.
C14_Witness ==
    /\ source.redirect_output
    /\ RunReturned /\ Unwrap(s_result).ok
    /\ Unwrap(s_result).val = "console text"
    /\ \E j, k \in 1..Len(calls) : j < k /\ calls[j] = "redirect" /\ calls[k] = "capture"



\* ---- claims about the pending-stream list ----
\* Thread t takes the step that pushes its stream / that drains the list.
PushStepOf(t) == th[t].pc = "pa_push" /\ th'[t].pc = "pa_ret"
DrainStepOf(t) == th[t].pc = "cc_drain" /\ th'[t].pc = "idle"
Listed(list, s) == \E i \in 1..Len(list) : list[i] = s

\* C19: a served ProvideAssembly appends exactly one entry, for the stream it
\* returns, to the pending list and takes one more reference to that stream;
\* outside of clear_current_assembly no entry leaves the list and no stream
\* loses a reference; clear_current_assembly releases each listed stream
\* exactly once and leaves the list empty.
C19_PendingStreams ==
    [][/\ \A t \in Threads :
              PushStepOf(t) =>
                  /\ PENDING_STREAMS' = Append(PENDING_STREAMS, th[t].stream)
                  /\ ~Listed(PENDING_STREAMS, th[t].stream)
                  /\ streams'[th[t].stream].refs = streams[th[t].stream].refs + 1
       /\ \A t \in Threads :
              (th'[t].pc = "pa_done" /\ th'[t].ret = Some(S_OK)) =>
                  th'[t].out.stream = Some(th'[t].stream)
       /\ (\A t \in Threads : ~DrainStepOf(t)) =>
              /\ Len(PENDING_STREAMS') >= Len(PENDING_STREAMS)
              /\ SubSeq(PENDING_STREAMS', 1, Len(PENDING_STREAMS)) = PENDING_STREAMS
              /\ \A s \in 1..Len(streams) : streams'[s].refs >= streams[s].refs
       /\ (\E t \in Threads : DrainStepOf(t)) =>
              /\ PENDING_STREAMS' = <<>>
              /\ \A s \in 1..Len(streams) :
                     streams'[s].refs =
                         streams[s].refs - (IF Listed(PENDING_STREAMS, s) THEN 1 ELSE 0)
      ]_vars

\* clear_current_assembly has released a stream that a ProvideAssembly call
\* returned: the list is empty and the stream has the runtime's reference only.
C19_Witness ==
    /\ PENDING_STREAMS = <<>>
    /\ \E s \in 1..Len(streams) :
           /\ streams[s].refs = 1
           /\ \A t \in Threads : th[t].pc \in {"pa_push", "pa_ret"} => th[t].stream # s

\* ---- claims about the locks of the store ----
\* Thread t holds the guard of CURRENT_ASSEMBLY / of PENDING_STREAMS.
HoldsCurrent(t) == current_owner = Some(t)
HoldsPending(t) == pending_owner = Some(t)
\* Thread t is at a `lock()` of CURRENT_ASSEMBLY / of PENDING_STREAMS.
WaitsOnCurrent(t) == th[t].pc = "pa_lock"
WaitsOnPending(t) == th[t].pc \in {"pa_push", "cc_pending"}
\* No thread waits for a lock whose holder itself has to wait for that thread,
\* and a holder of PENDING_STREAMS waits for nothing.
NoLockCycle ==
    \A t, u \in Threads :
        /\ HoldsPending(u) => ~WaitsOnCurrent(u) /\ ~WaitsOnPending(u)
        /\ (WaitsOnCurrent(t) /\ HoldsCurrent(u)) => ~WaitsOnCurrent(u) /\ ~HoldsPending(t)
        /\ (WaitsOnPending(t) /\ HoldsPending(u)) => ~HoldsCurrent(u)

HostCalls == {"Stop"}

\* C18: in run(), when unload_domain is reached the console output has been
\* captured into an owned string (if redirection is enabled) and the
\* StringWriter handle is gone; after UnloadDomain has been called, no call is
\* made through a handle obtained from the domain.
C18_CaptureBeforeUnload ==
    /\ s_pc = "unload_domain" =>
           /\ locals.writer = None
           /\ clr.redirect_output =>
                  /\ \E j \in 1..Len(calls) : calls[j] = "capture"
                  /\ locals.output = ConsoleText
    /\ \A i \in 1..Len(calls) :
           calls[i] = "UnloadDomain" =>
               /\ \A j \in (i + 1)..Len(calls) : calls[j] \in HostCalls
               /\ clr.redirect_output => \E j \in 1..(i - 1) : calls[j] = "capture"

\* A run() with redirection enabled has unloaded its domain and returned the
\* captured text, and the session was then dropped.
C18_Witness ==
    /\ clr.redirect_output
    /\ s_pc = "dropped"
    /\ IsSome(s_result) /\ Unwrap(s_result).ok /\ Unwrap(s_result).val = ConsoleText
    /\ \E i \in 1..Len(calls) : calls[i] = "UnloadDomain" /\ i < Len(calls)

\* Some call of prepare() has returned Ok: its last statement stores the runtime
\* host, and nothing clears it.
PrepareSucceeded == IsSome(clr.cor_runtime_host)

\* C17: get_app_domain, called on a runtime between two calls of run() when no
\* prepare() has succeeded yet, fails with NoDomainAvailable; called after a
\* prepare() that succeeded, it returns the cached application domain.
C17_NoDomainBeforePrepare ==
    s_pc \in {"created", "returned"} =>
        LET r == get_app_domain(clr) IN
        IF PrepareSucceeded
        THEN r.ok /\ Some(r.val) = clr.app_domain
        ELSE ~r.ok /\ r.val = "NoDomainAvailable"

\* ---- claims about the reflection layer ----
\* The first foreign call of the lookup `f` that answers a failing status, as
\* <<[op, hr]>>, or None when the lookup ends before any call fails.
RECURSIVE FirstFailingElement(_, _)
FirstFailingElement(elems, i) ==
    IF i > Len(elems) THEN None
    ELSE IF elems[i].hr # 0 THEN Some([op |-> "SafeArrayGetElement", hr |-> elems[i].hr])
    ELSE IF elems[i].ptr = None THEN None
    ELSE IF elems[i].text_hr # 0 THEN Some([op |-> "ToString", hr |-> elems[i].text_hr])
    ELSE FirstFailingElement(elems, i + 1)
ForeignGetter(f) ==
    CASE f.kind = "property" -> "GetProperty"
      [] f.kind = "method" -> "GetMethod_6"
      [] f.kind \in {"methods", "method_signature"} -> "GetMethods"
      [] f.kind \in {"properties", "property_signature"} -> "GetProperties"
FirstFailingCall(f) ==
    IF f.hr # 0 THEN Some([op |-> ForeignGetter(f), hr |-> f.hr])
    ELSE IF f.array = None THEN None
    ELSE FirstFailingElement(Unwrap(f.array), 1)
\* The foreign getter of the lookup `f` answers success and a null result.
NullOnSuccess(f) ==
    /\ f.hr = 0
    /\ IF f.kind \in {"property", "method"} THEN f.ptr = None ELSE f.array = None

\* C15: a lookup during which a foreign call answered a failing status returns
\* ApiError carrying the name of that call and the status it answered.
C15_FailingCallIsApiError ==
    (rf_result # None /\ FirstFailingCall(rf_op) # None) =>
        LET r == Unwrap(rf_result)
            c == Unwrap(FirstFailingCall(rf_op))
        IN r.kind = "ApiError" /\ r.op = c.op /\ r.hr = c.hr

\* C16: a lookup whose foreign getter answered success and a null result
\* returns NullPointerError naming the getter.
C16_NullResultIsNullPointerError ==
    (rf_result # None /\ NullOnSuccess(rf_op)) =>
        LET r == Unwrap(rf_result)
        IN r.kind = "NullPointerError" /\ r.op = ForeignGetter(rf_op)


\* ---- claims about the order of the teardown ----
\* C21: the runtime host is stopped (Drop) only when no application domain
\* created by prepare() is still loaded.
C21_StopAfterUnload ==
    (s_pc = "dropped" /\ \E i \in 1..Len(calls) : calls[i] = "Stop") => rt.domains = {}


\* The foreign calls run() makes after the entry point has returned, up to the
\* last one made so far.
RECURSIVE LastIndexOf(_, _, _)
LastIndexOf(seq, x, i) ==
    IF i = 0 THEN 0 ELSE IF seq[i] = x THEN i ELSE LastIndexOf(seq, x, i - 1)
AfterInvoke == SubSeq(calls, LastIndexOf(calls, "Invoke_3", Len(calls)) + 1, Len(calls))
Teardown ==
    (IF clr.redirect_output THEN <<"capture">> ELSE <<>>)
        \o <<"GetType_2(System.GC)", "Collect", "WaitForPendingFinalizers", "Collect",
             "UnloadDomain">>
IsPrefix(p, q) == Len(p) <= Len(q) /\ SubSeq(q, 1, Len(p)) = p

\* C22: after the entry point has returned, run() captures the output, collects,
\* waits for pending finalizers, collects again and then unloads the domain, in
\* this order; run() returns Ok only after all of them were done.
C22_TeardownOrder ==
    /\ (s_pc \notin {"new", "created", "dropped"} /\ LastIndexOf(calls, "Invoke_3", Len(calls)) > 0)
           => IsPrefix(AfterInvoke, Teardown)
    /\ (RunReturned /\ Unwrap(s_result).ok) => AfterInvoke = Teardown

\* A run() with redirection has returned Ok after the five steps.
C22_Witness ==
    /\ RunReturned /\ Unwrap(s_result).ok
    /\ clr.redirect_output
    /\ Len(AfterInvoke) = 6 /\ AfterInvoke[1] = "capture" /\ AfterInvoke[6] = "UnloadDomain"


\* Call `name` was made in the current run() before its call number i.
CalledBefore(name, i) == \E j \in 1..(i - 1) : calls[j] = name

\* C23: the entry point is invoked only after patch_exit was called and
\* succeeded (when the exit patch is enabled) and after the redirection
\* succeeded (when redirection is enabled); a run() that returned the error of
\* the patch or of the redirection has not invoked the entry point.
C23_PatchBeforeEntry ==
    /\ \A i \in 1..Len(calls) :
           calls[i] = "Invoke_3" =>
               /\ clr.patch_exit => CalledBefore("patch_exit", i)
               /\ clr.redirect_output => CalledBefore("redirect", i)
    /\ (RunReturned /\ ~Unwrap(s_result).ok /\ Unwrap(s_result).at \in {"patch_exit", "redirect"})
           => \A i \in 1..Len(calls) : calls[i] # "Invoke_3"

\* The entry point has been invoked in a run() with the exit patch enabled.
C23_Witness ==
    /\ clr.patch_exit
    /\ \E i \in 1..Len(calls) : calls[i] = "Invoke_3" /\ CalledBefore("patch_exit", i)


\* ---- claims about prepare() ----
\* C24: prepare() calls SetHostControl and Start only while the runtime is not
\* started, SetHostControl immediately before Start; when either call fails,
\* prepare() returns before any domain is created.
C24_StartOnlyWhenNotStarted ==
    /\ s_pc \in {"set_host_control", "start_runtime"} => ~rt.started
    /\ \A i \in 1..Len(calls) :
           calls[i] = "Start" => (i > 1 /\ calls[i - 1] = "SetHostControl")
    /\ (RunReturned /\ ~Unwrap(s_result).ok
            /\ Unwrap(s_result).at \in {"set_host_control", "start_runtime"})
           => \A i \in 1..Len(calls) : calls[i] # "CreateDomain"


\* ---- claims about CLRCreateInstance ----
\* C25: under concurrent and repeated calls the meta host is acquired from the
\* runtime at most once and later calls get the cached handle, and a failed
\* first attempt is not stored as a permanent failure.
C25_LocateCachedOnce ==
    /\ meta_hosts <= 1
    /\ \A t \in LocateThreads :
           (IsSome(loc_th[t].ret) /\ Unwrap(loc_th[t].ret).ok) => Unwrap(loc_th[t].ret).val = 1
    /\ ~(CLR_CREATE_INSTANCE.status = "complete" /\ CLR_CREATE_INSTANCE.value = Some(None))


\* ---- claims about the COM references of a session ----
\* C26: once the session has been run and dropped, every reference it obtained
\* has been released exactly once, whatever path run() took; no reference is
\* ever released more often than it was obtained.
C26_HandlesReleasedOnce ==
    /\ \A k \in HandleKinds : hd_rel[k] <= hd_acq[k]
    /\ hd_phase = "dropped" => \A k \in HandleKinds : hd_rel[k] = hd_acq[k]

\* C27: every array and string the marshaling functions allocate is, when the
\* function returns (Ok or Err), either freed exactly once or owned by the
\* wrapper it returned: never left without an owner, never freed twice.
C27_MarshalOwnership ==
    IsSome(ms_result) =>
        \A j \in 1..Len(Unwrap(ms_result).heap) :
            LET a == Unwrap(ms_result).heap[j] IN
            \/ a.frees = 1 /\ ~a.owned
            \/ a.frees = 0 /\ a.owned /\ Unwrap(ms_result).ok

\* A ProvideAssembly call that has pushed its stream and not yet returned still
\* holds the CURRENT_ASSEMBLY guard it took before creating the stream: a clear
\* that is past `drop(guard)` emptied the slot before that guard was taken, so
\* the stream was created for an image staged after that clear, and the image
\* is still staged.
StreamsOfNewStaging == {th[u].stream : u \in {v \in Threads : th[v].pc = "pa_ret"}}

\* C28: a clear_current_assembly releases only streams created for the staging
\* it cleared: its drain never releases a stream that a ProvideAssembly call
\* created for an image staged after the clear emptied the slot.
C28_ClearReleasesOwnStaging ==
    [][\A t \in Threads :
          ClearCurrentAssembly_Drain(t) =>
              \A i \in 1..Len(PENDING_STREAMS) :
                  PENDING_STREAMS[i] \notin StreamsOfNewStaging]_vars

\* A step of a ProvideAssembly call by t that does not take the serving branch:
\* the call is entered, takes the CURRENT_ASSEMBLY guard, or returns not-found.
NotFoundStepOf(t) ==
    /\ th[t].pc \in {"idle", "pa_lock", "pa_check"}
    /\ th'[t] # th[t]
    /\ th'[t].pc \in {"pa_lock", "pa_check", "pa_done"}

\* C29: a ProvideAssembly call that ends in not-found (0x80070002) creates no
\* stream, appends nothing to the pending-stream list, does not modify the
\* staged slot and writes none of the three out-parameters.
C29_NotFoundChangesNothing ==
    [][\A t \in Threads :
          NotFoundStepOf(t) =>
              /\ UNCHANGED <<CURRENT_ASSEMBLY, PENDING_STREAMS, STREAM_COUNT, streams>>
              /\ th'[t].out = Unwritten
              /\ th'[t].stream = 0
              /\ th'[t].pc = "pa_done" => th'[t].ret = Some(-2147024894)]_vars

\* A request has been answered not-found while another image is staged and a
\* stream of an earlier request is on the pending list.
C29_Witness ==
    /\ \E t \in Threads :
           /\ th[t].pc = "pa_done"
           /\ th[t].ret = Some(-2147024894)
           /\ IsSome(th[t].seen)
    /\ PENDING_STREAMS # <<>>

\* C30: over all interleavings of PowerShell::new, compile_env succeeds at
\* most once and every call after that success reuses the environment; every
\* call before it attempted the compilation and failed, which left the slot
\* empty and returned the error of compile_env to that caller.
C30_CompiledOnce ==
    /\ Built <= 1
    /\ COMPILED_ENV = (IF Built = 0 THEN None ELSE Some(1))
    /\ \A i \in 1..Len(ps_log) :
           IF \E j \in 1..(i - 1) : ps_log[j] = "compiled"
           THEN ps_log[i] = "reused"
           ELSE ps_log[i] \in {"compiled", "compile_failed"}
    /\ \A t \in PwshThreads :
           (IsSome(ps_th[t].ret) /\ ~Unwrap(ps_th[t].ret).ok
                /\ Unwrap(ps_th[t].ret).err = "compile_env") => ~ps_th[t].holds
    /\ \A t \in PwshThreads : ps_th[t].holds => COMPILED_ENV = Some(1)
    /\ (\A t \in PwshThreads : ps_th[t].pc \in {"idle", "new_lock"})
           => Len(ps_log) = ps_news - Cardinality({t \in PwshThreads : ps_th[t].pc = "new_lock"})

\* A first call failed in compile_env, a second compiled, and a third reused
\* the environment and returned a PowerShell.
C30_Witness ==
    /\ ps_log = <<"compile_failed", "compiled", "reused">>
    /\ \E t \in PwshThreads : ps_th[t].pc = "idle" /\ ps_th[t].holds

====
